---- MODULE Spec2Model ----
(***************************************************************************)
(* Localization link checker (anniedau/TestingSupport).                    *)
(*                                                                         *)
(* Four programs share one classification logic:                           *)
(*   "original" - localization_link_checker.py          (module functions) *)
(*   "updated"  - localization_link_checker_updated.py  (LinkChecker)      *)
(*   "bulk"     - bulk_localization_link_checker.py     (LinkChecker)      *)
(*   "multi"    - localization_link_multi.py            (LinkChecker)      *)
(*                                                                         *)
(* Strings are sequences of one-character strings, so that urlparse,       *)
(* rstrip('/'), lower() and the regular expressions of the source are      *)
(* computed on the text of a URL and not assumed.                          *)
(***************************************************************************)
EXTENDS Integers, Sequences, FiniteSets, TLC

(***************************************************************************)
(* Text                                                                    *)
(***************************************************************************)
LowerLetters ==
  {"a","b","c","d","e","f","g","h","i","j","k","l","m",
   "n","o","p","q","r","s","t","u","v","w","x","y","z"}

UpperLetters ==
  {"A","B","C","D","E","F","G","H","I","J","K","L","M",
   "N","O","P","Q","R","S","T","U","V","W","X","Y","Z"}

Digits == {"0","1","2","3","4","5","6","7","8","9"}

\* str.lower() on one character
LowerChar(c) ==
  CASE c = "A" -> "a" [] c = "B" -> "b" [] c = "C" -> "c" [] c = "D" -> "d"
    [] c = "E" -> "e" [] c = "F" -> "f" [] c = "G" -> "g" [] c = "H" -> "h"
    [] c = "I" -> "i" [] c = "J" -> "j" [] c = "K" -> "k" [] c = "L" -> "l"
    [] c = "M" -> "m" [] c = "N" -> "n" [] c = "O" -> "o" [] c = "P" -> "p"
    [] c = "Q" -> "q" [] c = "R" -> "r" [] c = "S" -> "s" [] c = "T" -> "t"
    [] c = "U" -> "u" [] c = "V" -> "v" [] c = "W" -> "w" [] c = "X" -> "x"
    [] c = "Y" -> "y" [] c = "Z" -> "z" [] OTHER -> c

\* str.lower()
Lower(s) == [i \in 1..Len(s) |-> LowerChar(s[i])]

\* str.startswith(p)
StartsWith(s, p) == Len(p) <= Len(s) /\ SubSeq(s, 1, Len(p)) = p

\* str.endswith(p); also a regular expression "literal$"
EndsWith(s, p) == Len(p) <= Len(s) /\ SubSeq(s, Len(s) - Len(p) + 1, Len(s)) = p

\* "p in s"; also re.search of a literal
Contains(s, p) == \E i \in 0..(Len(s) - Len(p)) : SubSeq(s, i + 1, i + Len(p)) = p

\* str.rstrip('/'): every trailing slash is removed
RECURSIVE RStripSlash(_)
RStripSlash(s) ==
  IF s # <<>> /\ s[Len(s)] = "/" THEN RStripSlash(SubSeq(s, 1, Len(s) - 1)) ELSE s

\* index of the first character of cs at or after k, or Len(s) + 1 when absent
RECURSIVE FirstFrom(_, _, _)
FirstFrom(s, cs, k) ==
  IF k > Len(s) THEN Len(s) + 1
  ELSE IF s[k] \in cs THEN k ELSE FirstFrom(s, cs, k + 1)

FirstOf(s, cs) == FirstFrom(s, cs, 1)

(***************************************************************************)
(* urllib.parse.urlparse, the part the programs use: scheme, netloc, path, *)
(* query and fragment of a URL.                                            *)
(***************************************************************************)
SchemeChars == LowerLetters \cup UpperLetters \cup Digits \cup {"+", "-", "."}

\* the scheme is the text before the first ':' when that text is a scheme
HasScheme(url, colon) ==
  /\ colon <= Len(url)
  /\ colon > 1
  /\ url[1] \in LowerLetters \cup UpperLetters
  /\ \A k \in 1..(colon - 1) : url[k] \in SchemeChars

\* path, query and fragment of the text after the netloc
SplitPath(scheme, netloc, rest, hash) ==
  LET qm == FirstOf(SubSeq(rest, 1, hash - 1), {"?"})
  IN  [scheme |-> scheme, netloc |-> netloc,
       path     |-> SubSeq(rest, 1, IF qm < hash THEN qm - 1 ELSE hash - 1),
       query    |-> SubSeq(rest, qm + 1, hash - 1),
       fragment |-> SubSeq(rest, hash + 1, Len(rest))]

\* the netloc runs from "//" to the next '/', '?' or '#'
SplitNetloc(scheme, rest) ==
  IF StartsWith(rest, <<"/", "/">>)
  THEN LET netEnd == FirstFrom(rest, {"/", "?", "#"}, 3)
       IN  SplitPath(scheme, SubSeq(rest, 3, netEnd - 1),
                     SubSeq(rest, netEnd, Len(rest)),
                     FirstFrom(rest, {"#"}, netEnd) - netEnd + 1)
  ELSE SplitPath(scheme, <<>>, rest, FirstOf(rest, {"#"}))

SplitScheme(url, colon) ==
  IF HasScheme(url, colon)
  THEN SplitNetloc(Lower(SubSeq(url, 1, colon - 1)), SubSeq(url, colon + 1, Len(url)))
  ELSE SplitNetloc(<<>>, url)

urlparse(url) == SplitScheme(url, FirstOf(url, {":"}))

\* urllib.parse.urlunparse for (scheme, netloc, path, '', query, fragment)
urlunparse(scheme, netloc, path, query, fragment) ==
  LET p1 == IF netloc # <<>> /\ path # <<>> /\ path[1] # "/" THEN <<"/">> \o path ELSE path
      u1 == IF netloc # <<>> THEN <<"/", "/">> \o netloc \o p1 ELSE p1
      u2 == IF scheme # <<>> THEN scheme \o <<":">> \o u1 ELSE u1
      u3 == IF query # <<>> THEN u2 \o <<"?">> \o query ELSE u2
  IN  IF fragment # <<>> THEN u3 \o <<"#">> \o fragment ELSE u3

(***************************************************************************)
(* Configuration and status constants                                      *)
(***************************************************************************)
Variants == {"original", "updated", "bulk", "multi"}

\* the three programs built on the LinkChecker class
ClassVariants == {"updated", "bulk", "multi"}

SUCCESS == "success"

ERROR == "error"

DEFECT == "defect"

WARNING == "warning"

LOCALIZATION_DEFECT == "localization_defect"

\* Python's None where a status code is expected
NoCode == 0

\* CONFIG['supported_languages'], in dictionary order
LanguageOrder == <<<<"f", "r">>, <<"e", "s">>, <<"d", "e">>, <<"i", "t">>, <<"r", "u">>>>

LanguagePatterns(lang) ==
  CASE lang = <<"f", "r">> -> {<<"/", "f", "r", "/">>, <<"/", "f", "r", "-", "f", "r", "/">>, <<"/", "f", "r", "e", "n", "c", "h", "/">>, <<"/", "f", "r", "a", "n", "c", "a", "i", "s", "/">>}
    [] lang = <<"e", "s">> -> {<<"/", "e", "s", "/">>, <<"/", "e", "s", "-", "e", "s", "/">>, <<"/", "s", "p", "a", "n", "i", "s", "h", "/">>, <<"/", "e", "s", "p", "a", "n", "o", "l", "/">>}
    [] lang = <<"d", "e">> -> {<<"/", "d", "e", "/">>, <<"/", "d", "e", "-", "d", "e", "/">>, <<"/", "g", "e", "r", "m", "a", "n", "/">>, <<"/", "d", "e", "u", "t", "s", "c", "h", "/">>}
    [] lang = <<"i", "t">> -> {<<"/", "i", "t", "/">>, <<"/", "i", "t", "-", "i", "t", "/">>, <<"/", "i", "t", "a", "l", "i", "a", "n", "/">>, <<"/", "i", "t", "a", "l", "i", "a", "n", "o", "/">>}
    [] lang = <<"r", "u">> -> {<<"/", "r", "u", "/">>, <<"/", "r", "u", "-", "r", "u", "/">>, <<"/", "r", "u", "s", "s", "i", "a", "n", "/">>, <<"/", "r", "u", "s", "s", "k", "i", "y", "/">>}

\* the extensions of r'\.(pdf|zip|docx?|xlsx?|pptx?|exe|rar|tar\.gz|7z)$'
FileExtensions ==
  {<<".", "p", "d", "f">>, <<".", "z", "i", "p">>, <<".", "d", "o", "c">>, <<".", "d", "o", "c", "x">>, <<".", "x", "l", "s">>, <<".", "x", "l", "s", "x">>, <<".", "p", "p", "t">>,
   <<".", "p", "p", "t", "x">>, <<".", "e", "x", "e">>, <<".", "r", "a", "r">>, <<".", "t", "a", "r", ".", "g", "z">>, <<".", "7", "z">>}

(***************************************************************************)
(* Helpers of the LinkChecker class (updated, bulk, multi)                 *)
(***************************************************************************)
\* re.search(r'\.(pdf|...)$', url, re.IGNORECASE): on the whole URL text
is_file_link(url) == \E ext \in FileExtensions : EndsWith(Lower(url), ext)

is_valid_url(url) ==
  LET result == urlparse(url)
  IN  /\ result.scheme # <<>>
      /\ result.netloc # <<>>
      /\ result.scheme \in {<<"h", "t", "t", "p">>, <<"h", "t", "t", "p", "s">>}

\* re.match(r'^/([a-z]{2})(?:-[a-z]{2})?/', path)
LocalePrefixMatch(path) ==
  /\ Len(path) >= 4
  /\ path[1] = "/"
  /\ path[2] \in LowerLetters
  /\ path[3] \in LowerLetters
  /\ \/ path[4] = "/"
     \/ /\ Len(path) >= 7
        /\ path[4] = "-"
        /\ path[5] \in LowerLetters
        /\ path[6] \in LowerLetters
        /\ path[7] = "/"

has_locale_prefix(url) == LocalePrefixMatch(urlparse(url).path)

RECURSIVE DetectFrom(_, _)
DetectFrom(path, k) ==
  IF k > Len(LanguageOrder) THEN <<"e", "n">>
  ELSE IF \E pattern \in LanguagePatterns(LanguageOrder[k]) : Contains(path, pattern)
       THEN LanguageOrder[k]
       ELSE DetectFrom(path, k + 1)

\* detect_language, but the path is searched as it is written
detect_language_CaseSensitive(url) == DetectFrom(urlparse(url).path, 1)

detect_language(url) == DetectFrom(Lower(urlparse(url).path), 1)

\* re.match(rf'^/{locale}(/|$)', path)
PathHasLocale(path, locale) ==
  LET pre == <<"/">> \o locale
  IN  /\ StartsWith(path, pre)
      /\ \/ Len(path) = Len(pre)
         \/ path[Len(pre) + 1] = "/"

\* re.search(rf"(_|-){locale}\.pdf$", path, re.IGNORECASE)
LocalePdfMatch(path, locale) ==
  \/ EndsWith(Lower(path), <<"_">> \o Lower(locale) \o <<".", "p", "d", "f">>)
  \/ EndsWith(Lower(path), <<"-">> \o Lower(locale) \o <<".", "p", "d", "f">>)

CleanUrl(parsed) == RStripSlash(parsed.scheme \o <<":", "/", "/">> \o parsed.netloc \o parsed.path)

_remove_fragments(url) == CleanUrl(urlparse(url))

\* ExpectedFromParsed, but the Spanish PDF gets the suffix of the other locales
ExpectedFromParsed_DashForSpanish(parsed, locale) ==
  IF EndsWith(Lower(parsed.path), <<".", "p", "d", "f">>)
  THEN parsed.scheme \o <<":", "/", "/">> \o parsed.netloc
         \o SubSeq(parsed.path, 1, Len(parsed.path) - 4) \o <<"-">> \o locale \o <<".", "p", "d", "f">>
  ELSE IF ~PathHasLocale(parsed.path, locale)
       THEN parsed.scheme \o <<":", "/", "/">> \o parsed.netloc \o <<"/">> \o locale \o parsed.path
       ELSE <<>>

ExpectedFromParsed(parsed, locale) ==
  IF EndsWith(Lower(parsed.path), <<".", "p", "d", "f">>)
  THEN IF Lower(locale) = <<"e", "s">>
       THEN parsed.scheme \o <<":", "/", "/">> \o parsed.netloc
              \o SubSeq(parsed.path, 1, Len(parsed.path) - 4) \o <<"_", "E", "S", ".", "p", "d", "f">>
       ELSE parsed.scheme \o <<":", "/", "/">> \o parsed.netloc
              \o SubSeq(parsed.path, 1, Len(parsed.path) - 4) \o <<"-">> \o locale \o <<".", "p", "d", "f">>
  ELSE IF ~PathHasLocale(parsed.path, locale)
       THEN parsed.scheme \o <<":", "/", "/">> \o parsed.netloc \o <<"/">> \o locale \o parsed.path
       ELSE <<>>

\* _get_expected_localized_url, but the locale is put after the path
_get_expected_localized_url_LocaleLast(url, locale) ==
  urlparse(url).scheme \o <<":", "/", "/">> \o urlparse(url).netloc
    \o urlparse(url).path \o <<"/">> \o locale

\* None is the empty text
_get_expected_localized_url(url, locale) == ExpectedFromParsed(urlparse(url), locale)

(***************************************************************************)
(* What a function of the classifier has come to, given the responses the  *)
(* network has given so far: blocked on its next request ("pending"), a    *)
(* returned (status, status_code, issue) ("return"), an exception leaving  *)
(* the function ("raise"), or the value False ("malformed").  The issue is *)
(* its message (note, "None" for None) and the exception text it embeds.   *)
(***************************************************************************)
Pending(method, url) ==
  [kind |-> "pending", method |-> method, url |-> url,
   status |-> "", status_code |-> NoCode, note |-> "", text |-> ""]

Ret(status, status_code, note, text) ==
  [kind |-> "return", method |-> "", url |-> <<>>,
   status |-> status, status_code |-> status_code, note |-> note, text |-> text]

Raise(text) ==
  [kind |-> "raise", method |-> "", url |-> <<>>,
   status |-> "", status_code |-> NoCode, note |-> "", text |-> text]

Malformed ==
  [kind |-> "malformed", method |-> "", url |-> <<>>,
   status |-> "", status_code |-> NoCode, note |-> "", text |-> ""]

(***************************************************************************)
(* LinkChecker.check_link_localization and its two branches.  net is the   *)
(* sequence of responses to the requests made so far, in order.            *)
(***************************************************************************)
\* a variant of _check_localized_link that compares the final URL with the
\* link character by character, trailing slashes included
_check_localized_link_ExactCompare(link_url, net) ==
  IF net = <<>> THEN Pending("GET", link_url)
  ELSE IF net[1].exc
       THEN Ret(ERROR, NoCode, "Error check localized link", net[1].text)
       ELSE IF net[1].status = 200
            THEN IF net[1].url = link_url
                 THEN Ret(SUCCESS, 200, "None", "")
                 ELSE Ret(SUCCESS, 200, "Redirected to", "")
            ELSE Ret(LOCALIZATION_DEFECT, net[1].status, "Localized link returns", "")

\* a variant of _check_localized_link that reports a localized link that
\* ends on another URL as a localization defect
_check_localized_link_RedirectIsDefect(link_url, net) ==
  IF net = <<>> THEN Pending("GET", link_url)
  ELSE IF net[1].exc
       THEN Ret(ERROR, NoCode, "Error check localized link", net[1].text)
       ELSE IF net[1].status = 200 /\ RStripSlash(net[1].url) = RStripSlash(link_url)
            THEN Ret(SUCCESS, 200, "None", "")
            ELSE Ret(LOCALIZATION_DEFECT, net[1].status, "Localized link returns", "")

_check_localized_link(link_url, net) ==
  IF net = <<>> THEN Pending("GET", link_url)
  ELSE LET response == net[1]
       IN  IF response.exc
           THEN Ret(ERROR, NoCode, "Error check localized link", response.text)
           ELSE IF response.status = 200
                THEN IF RStripSlash(response.url) = RStripSlash(link_url)
                     THEN Ret(SUCCESS, 200, "None", "")
                     ELSE Ret(SUCCESS, 200, "Redirected to", "")
                ELSE Ret(LOCALIZATION_DEFECT, response.status, "Localized link returns", "")

\* a variant of CompareClean whose elif never fires: an existing localized
\* page is taken for a redirect to the default version
CompareClean_DefectDropped(original_link_clean, expected_localized_clean, final_url_clean) ==
  IF final_url_clean # original_link_clean /\ final_url_clean # expected_localized_clean
  THEN Ret(SUCCESS, 200, "Final link is different", "")
  ELSE Ret(SUCCESS, 200, "No localized version exists; redirects to default version", "")

\* the comparison of the three cleaned URLs once the expected URL answered 200
CompareClean(original_link_clean, expected_localized_clean, final_url_clean) ==
  IF final_url_clean # original_link_clean /\ final_url_clean # expected_localized_clean
  THEN Ret(SUCCESS, 200, "Final link is different", "")
  ELSE IF final_url_clean # original_link_clean /\ final_url_clean = expected_localized_clean
       THEN Ret(LOCALIZATION_DEFECT, 200, "Should link to localized version", "")
       ELSE Ret(SUCCESS, 200, "No localized version exists; redirects to default version", "")

\* a variant of CheckExpected that reports a defect whenever the expected
\* localized URL answers 200, wherever it ends
CheckExpected_DefectOnAny200(link_url, expected_localized, net) ==
  IF expected_localized # <<>> /\ expected_localized # link_url
  THEN IF Len(net) < 2 THEN Pending("GET", expected_localized)
       ELSE IF net[2].exc
            THEN Ret(ERROR, NoCode, "Error check non-localized link", net[2].text)
            ELSE IF net[2].status = 200
                 THEN Ret(LOCALIZATION_DEFECT, 200, "Should link to localized version", "")
                 ELSE Ret(SUCCESS, NoCode, "No localized version exists (status)", "")
  ELSE Ret(SUCCESS, 200, "No localized version exists", "")

\* a variant of CheckExpected that takes a request that raises for a missing
\* localized version
CheckExpected_UnreachableIsSuccess(link_url, expected_localized, net) ==
  IF expected_localized # <<>> /\ expected_localized # link_url
  THEN IF Len(net) < 2 THEN Pending("GET", expected_localized)
       ELSE IF ~net[2].exc /\ net[2].status = 200
            THEN CompareClean(_remove_fragments(link_url),
                              _remove_fragments(expected_localized),
                              _remove_fragments(net[2].url))
            ELSE Ret(SUCCESS, NoCode, "No localized version exists (status)", "")
  ELSE Ret(SUCCESS, 200, "No localized version exists", "")

\* the request to the expected localized URL and what its answer means
CheckExpected(link_url, expected_localized, net) ==
  IF expected_localized # <<>> /\ expected_localized # link_url
  THEN IF Len(net) < 2 THEN Pending("GET", expected_localized)
       ELSE IF net[2].exc
            THEN Ret(ERROR, NoCode, "Error check non-localized link", net[2].text)
            ELSE IF net[2].status = 200
                 THEN CompareClean(_remove_fragments(link_url),
                                   _remove_fragments(expected_localized),
                                   _remove_fragments(net[2].url))
                 ELSE Ret(SUCCESS, NoCode, "No localized version exists (status)", "")
  ELSE Ret(SUCCESS, 200, "No localized version exists", "")

\* a variant of _check_non_localized_link that gives a link that failed its
\* GET a second chance before it reports it
_check_non_localized_link_RetryOnce(link_url, locale, net) ==
  IF net = <<>> THEN Pending("GET", link_url)
  ELSE IF net[1].exc \/ net[1].status # 200
       THEN IF Len(net) < 2 THEN Pending("GET", link_url)
            ELSE IF net[2].exc THEN Raise(net[2].text)
            ELSE IF net[2].status # 200 THEN Ret(ERROR, net[2].status, "Link is broken", "")
            ELSE CheckExpected(link_url, _get_expected_localized_url(link_url, locale),
                               Tail(net))
       ELSE CheckExpected(link_url, _get_expected_localized_url(link_url, locale), net)

_check_non_localized_link(link_url, locale, net) ==
  IF net = <<>> THEN Pending("GET", link_url)
  ELSE IF net[1].exc THEN Raise(net[1].text)
  ELSE IF net[1].status # 200 THEN Ret(ERROR, net[1].status, "Link is broken", "")
  ELSE CheckExpected(link_url, _get_expected_localized_url(link_url, locale), net)

\* a variant of NotNakivo that searches the whole URL instead of the host
NotNakivo_WholeUrl(link_url) == ~Contains(Lower(link_url), <<"n", "a", "k", "i", "v", "o", ".", "c", "o", "m">>)

\* "nakivo.com" not in parsed_link.netloc.lower()
NotNakivo(link_url) == ~Contains(Lower(urlparse(link_url).netloc), <<"n", "a", "k", "i", "v", "o", ".", "c", "o", "m">>)

\* the branch taken once the link answered 200 on the site
LocalizationBranch(link_url, parsed_link, locale, net) ==
  IF is_file_link(link_url) /\ LocalePdfMatch(Lower(parsed_link.path), locale)
  THEN _check_localized_link(link_url, net)
  ELSE IF PathHasLocale(parsed_link.path, locale)
       THEN _check_localized_link(link_url, net)
       ELSE _check_non_localized_link(link_url, locale, net)

\* except Exception as e, around the whole of check_link_localization
CatchAll(inner) ==
  IF inner.kind = "raise"
  THEN Ret(ERROR, NoCode, "Error checking link", inner.text)
  ELSE inner

\* a variant of check_link_localization that applies the domain rule before
\* it looks at the status of the link
check_link_localization_DomainFirst(link_url, locale, net) ==
  IF net = <<>> THEN Pending("GET", link_url)
  ELSE IF net[1].exc THEN CatchAll(Raise(net[1].text))
  ELSE IF NotNakivo(link_url) THEN Ret(WARNING, net[1].status, "Not match nakivo.com", "")
  ELSE IF net[1].status # 200 THEN Ret(ERROR, net[1].status, "Link is broken", "")
  ELSE CatchAll(LocalizationBranch(link_url, urlparse(link_url), locale, Tail(net)))

check_link_localization(link_url, locale, net) ==
  IF net = <<>> THEN Pending("GET", link_url)
  ELSE IF net[1].exc THEN CatchAll(Raise(net[1].text))
  ELSE IF net[1].status # 200 THEN Ret(ERROR, net[1].status, "Link is broken", "")
  ELSE IF NotNakivo(link_url) THEN Ret(WARNING, net[1].status, "Not match nakivo.com", "")
  ELSE CatchAll(LocalizationBranch(link_url, urlparse(link_url), locale, Tail(net)))

(***************************************************************************)
(* The original checker (localization_link_checker.py)                     *)
(***************************************************************************)
\* re.match(r'^(?:http|https)://\S+(?::\d+)?(?:/?|[/?]\S+)$', url, re.IGNORECASE)
original_is_valid_url(url) ==
  /\ \/ StartsWith(Lower(url), <<"h", "t", "t", "p", ":", "/", "/">>) /\ Len(url) > 7
     \/ StartsWith(Lower(url), <<"h", "t", "t", "p", "s", ":", "/", "/">>) /\ Len(url) > 8
  /\ \A k \in 1..Len(url) : url[k] # " "

\* length of the match of r'/[a-z]{2}(?:-[a-z]{2})?/' at position i, 0 when none
LangSegAt(p, i) ==
  IF /\ i + 3 <= Len(p)
     /\ p[i] = "/"
     /\ p[i + 1] \in LowerLetters
     /\ p[i + 2] \in LowerLetters
  THEN IF /\ i + 6 <= Len(p)
          /\ p[i + 3] = "-"
          /\ p[i + 4] \in LowerLetters
          /\ p[i + 5] \in LowerLetters
          /\ p[i + 6] = "/"
       THEN 7
       ELSE IF p[i + 3] = "/" THEN 4 ELSE 0
  ELSE 0

\* re.search(r'/([a-z]{2})(?:-[a-z]{2})?/', p): start of the leftmost match, 0 when none
RECURSIVE LangSegFrom(_, _)
LangSegFrom(p, i) ==
  IF i > Len(p) THEN 0
  ELSE IF LangSegAt(p, i) > 0 THEN i ELSE LangSegFrom(p, i + 1)

LangSegSearch(p) == LangSegFrom(p, 1)

\* re.sub(r'/[a-z]{2}(?:-[a-z]{2})?/', f'/{lang}/', p)
RECURSIVE LangSegSub(_, _)
LangSegSub(p, lang) ==
  LET i == LangSegSearch(p)
  IN  IF i = 0 THEN p
      ELSE SubSeq(p, 1, i - 1) \o <<"/">> \o lang \o <<"/">>
           \o LangSegSub(SubSeq(p, i + LangSegAt(p, i), Len(p)), lang)

\* same domain as the page, whose path carries a language segment
ExpectedSameDomain(parsed_url, lang) ==
  urlunparse(parsed_url.scheme, parsed_url.netloc,
             IF LangSegSearch(parsed_url.path) > 0
             THEN LangSegSub(parsed_url.path, lang)
             ELSE <<"/">> \o lang \o parsed_url.path,
             parsed_url.query, parsed_url.fragment)

\* otherwise the detected language is tried with a HEAD request
ExpectedProbe(url, parsed_url, base_lang, net) ==
  IF ~PathHasLocale(parsed_url.path, base_lang)
  THEN IF net = <<>>
       THEN [pending |-> TRUE, used |-> 0,
             url |-> parsed_url.scheme \o <<":", "/", "/">> \o parsed_url.netloc
                       \o <<"/">> \o base_lang \o parsed_url.path]
       ELSE IF ~net[1].exc /\ net[1].status = 200
            THEN [pending |-> FALSE, used |-> 1,
                  url |-> urlunparse(parsed_url.scheme, parsed_url.netloc,
                                     <<"/">> \o base_lang \o parsed_url.path,
                                     parsed_url.query, parsed_url.fragment)]
            ELSE [pending |-> FALSE, used |-> 1, url |-> url]
  ELSE [pending |-> FALSE, used |-> 0, url |-> url]

\* base_lang of the fallback: '' unless one of the five languages
BaseLang(detected) ==
  IF detected \in {<<"e", "s">>, <<"f", "r">>, <<"d", "e">>, <<"i", "t">>, <<"r", "u">>} THEN detected ELSE <<>>

ExpectedFor(url, parsed_url, base_url, parsed_base, at, net) ==
  IF parsed_url.netloc = parsed_base.netloc /\ at > 0
  THEN [pending |-> FALSE, used |-> 0,
        url |-> ExpectedSameDomain(parsed_url, SubSeq(parsed_base.path, at + 1, at + 2))]
  ELSE ExpectedProbe(url, parsed_url, BaseLang(Lower(detect_language(base_url))), net)

\* [pending, url, used]: blocked on a HEAD of url, or the value url after
\* consuming `used` responses
get_expected_localization_url(url, base_url, net) ==
  ExpectedFor(url, urlparse(url), base_url, urlparse(base_url),
              LangSegSearch(urlparse(base_url).path), net)

\* the comparison of the final URL once the expected URL answered 200 twice
ConsistencyFinal(url, expected_url, final) ==
  IF final # RStripSlash(url) /\ final # RStripSlash(expected_url)
  THEN Ret(LOCALIZATION_DEFECT, 200, "Final link is different", "")
  ELSE IF final # RStripSlash(url) /\ final = RStripSlash(expected_url)
       THEN Ret(LOCALIZATION_DEFECT, 200, "Link should point to localized version", "")
       ELSE Ret(SUCCESS, 200, "No localized version exists; redirects to default version", "")

\* HEAD, then GET, of the expected URL
ConsistencyRequests(url, expected_url, rest) ==
  IF expected_url = url THEN Ret(SUCCESS, 200, "None", "")
  ELSE IF rest = <<>> THEN Pending("HEAD", expected_url)
  ELSE IF rest[1].exc THEN Malformed
  ELSE IF rest[1].status # 200
       THEN Ret(DEFECT, rest[1].status, "Localized link responds with fail status", "")
  ELSE IF Len(rest) < 2 THEN Pending("GET", expected_url)
  ELSE IF rest[2].exc THEN Malformed
  ELSE IF rest[2].status # 200
       THEN Ret(SUCCESS, rest[2].status, "Localized link responds with fail status", "")
  ELSE ConsistencyFinal(url, expected_url, RStripSlash(rest[2].url))

ConsistencyWith(url, e, net) ==
  IF e.pending THEN Pending("HEAD", e.url)
  ELSE ConsistencyRequests(url, e.url, SubSeq(net, e.used + 1, Len(net)))

check_localization_consistency(url, base_url, net) ==
  ConsistencyWith(url, get_expected_localization_url(url, base_url, net), net)

original_check_link_localization(link_url, base_url, locale, net) ==
  IF PathHasLocale(urlparse(link_url).path, locale)
  THEN IF net = <<>> THEN Pending("HEAD", link_url)
       ELSE IF net[1].exc THEN Ret(ERROR, NoCode, "Error checking link", net[1].text)
       ELSE IF net[1].status # 200
            THEN Ret(DEFECT, net[1].status, "Localized link responds with fail status", "")
       ELSE IF Len(net) < 2 THEN Pending("GET", link_url)
       ELSE IF net[2].exc THEN Ret(ERROR, NoCode, "Error checking link", net[2].text)
       ELSE IF net[2].status # 200
            THEN Ret(LOCALIZATION_DEFECT, 200, "Final link should be the default link", "")
       ELSE IF RStripSlash(net[2].url) = RStripSlash(link_url)
            THEN Ret(SUCCESS, 200, "None", "")
            ELSE Ret(SUCCESS, 200, "Redirect: final link is redirect to other valid link", "")
  ELSE check_localization_consistency(link_url, base_url, net)

\* Classify, but in the bulk program an exception of the second request for
\* the link leaves check_link_localization
Classify_BulkRaises(v, link_url, base_url, locale, net) ==
  IF v = "original"
  THEN original_check_link_localization(link_url, base_url, locale, net)
  ELSE IF v = "bulk" /\ Len(net) >= 2 /\ ~net[1].exc /\ net[2].exc
       THEN Raise(net[2].text)
       ELSE check_link_localization(link_url, locale, net)

\* the classifier of each program
Classify(v, link_url, base_url, locale, net) ==
  IF v = "original"
  THEN original_check_link_localization(link_url, base_url, locale, net)
  ELSE check_link_localization(link_url, locale, net)

(***************************************************************************)
(* The world the programs run against: pages of the site, links found on   *)
(* them, and the answers of the network.                                   *)
(***************************************************************************)
Site == <<"h", "t", "t", "p", "s", ":", "/", "/", "n", "a", "k", "i", "v", "o", ".", "c", "o", "m">>

\* localized input pages
PageDe == Site \o <<"/", "d", "e", "/">>

PageEs == Site \o <<"/", "e", "s", "/">>

LinkPages == {PageDe, PageEs}

\* links a page may carry (none matches CONFIG['exclude_patterns'])
LinkUniverse ==
  { Site \o <<"/", "p", "g">>,
    Site \o <<"/", "p", "g", "?", "q">>,
    Site \o <<"/", "d", "e", "/", "p", "g">>,
    Site \o <<"/", "d", "e", "/", "p", "g", "/">>,
    Site \o <<"/", "d", "e">>,
    Site \o <<"/", "e", "s", "/", "p", "g">>,
    Site \o <<"/", "a", ".", "p", "d", "f">>,
    Site \o <<"/", "a", "-", "d", "e", ".", "p", "d", "f">>,
    Site \o <<"/", "a", "_", "E", "S", ".", "p", "d", "f">>,
    Site \o <<"/", "a", "-", "d", "e", ".", "p", "d", "f", "?", "v">>,
    <<"h", "t", "t", "p", "s", ":", "/", "/", "e", "x", "a", "m", "p", "l", "e", ".", "o", "r", "g", "/", "p", "g", "?", "r", "=", "n", "a", "k", "i", "v", "o", ".", "c", "o", "m">>,
    <<"h", "t", "t", "p", "s", ":", "/", "/", "n", "a", "k", "i", "v", "o", ".", "c", "o", "m", ".", "e", "x", "a", "m", "p", "l", "e", ".", "o", "r", "g", "/", "p", "g">> }

\* a page that is neither a link nor an expected localized URL
ThirdUrl == Site \o <<"/", "o">>

\* str(e) of the exceptions requests raises
ExceptionTexts == {"Read timed out", "Connection reset by peer"}

\* statuses other than 200 that a final response carries
FailStatuses == {404, 500}

Exc(text) == [exc |-> TRUE, text |-> text, status |-> NoCode, url |-> <<>>]

Resp(status, url) == [exc |-> FALSE, text |-> "", status |-> status, url |-> url]

\* the URL whose localized counterpart a program looks for
ExpectedOf(v, link_url, base_url, locale) ==
  IF v = "original"
  THEN get_expected_localization_url(link_url, base_url, <<Resp(200, link_url)>>).url
  ELSE _get_expected_localized_url(link_url, locale)

\* final URLs (response.url) the network may report while a link is classified
FinalUrlsWith(link_url, e) ==
  {link_url, link_url \o <<"/">>, ThirdUrl} \cup (IF e = <<>> THEN {} ELSE {e, e \o <<"?", "r">>})

FinalUrls(v, link_url, base_url, locale) ==
  FinalUrlsWith(link_url, ExpectedOf(v, link_url, base_url, locale))

Responses(v, link_url, base_url, locale) ==
  {Exc(t) : t \in ExceptionTexts}
    \cup {Resp(c, link_url) : c \in FailStatuses}
    \cup {Resp(200, u) : u \in FinalUrls(v, link_url, base_url, locale)}

(***************************************************************************)
(* What a POST carries, what a page holds and what the network answers     *)
(* while a whole request is handled                                        *)
(***************************************************************************)
\* most URLs entered in the textarea of the bulk form
MaxUrls == 2

\* a URL without scheme
InvalidUrl == <<"n", "a", "k", "i", "v", "o", ".", "c", "o", "m", "/", "d", "e", "/">>

\* a page of the site without locale prefix
PlainPage == Site \o <<"/", "p", "g">>

FormUrls == {PageDe, PlainPage, InvalidUrl}

\* base URLs entered in the multi-locale form
MultiBases == {Site \o <<"/">>, PageDe, InvalidUrl, <<>>}

\* the checked boxes of the multi-locale form, in the order of the form
LocaleChoices == {<<>>, <<<<"d", "e">>>>, <<<<"e", "s">>>>, <<<<"d", "e">>, <<"e", "s">>>>}

SeqsUpTo(S, n) == UNION {[1..k -> S] : k \in 0..n}

NoForm == [urls |-> <<>>, localizations |-> <<>>]

\* request.form of the POST, after strip() and the split into lines
Forms(v) ==
  IF v = "bulk"
  THEN {[urls |-> us, localizations |-> <<>>] : us \in SeqsUpTo(FormUrls, MaxUrls)}
  ELSE IF v = "multi"
       THEN {[urls |-> <<b>>, localizations |-> ls] : b \in MultiBases, ls \in LocaleChoices}
       ELSE {[urls |-> <<u>>, localizations |-> <<>>] : u \in FormUrls \cup {PageEs}}

\* links_data of a page, as _parse_links leaves it (no URL twice)
PageContents == {<<>>, <<PlainPage>>, <<PlainPage, Site \o <<"/", "d", "e", "/", "p", "g">>>>}

\* the fetch of the page with requests: it fails, or gives the links
Fetches ==
  {[ok |-> FALSE, links |-> <<>>]} \cup {[ok |-> TRUE, links |-> c] : c \in PageContents}

\* the fallback: no driver could be started, or the driver gives the links
\* (none when driver.get raises)
Fallbacks ==
  {[driver |-> FALSE, links |-> <<>>],
   [driver |-> TRUE, links |-> <<>>],
   [driver |-> TRUE, links |-> <<PlainPage>>]}

\* answers to a request for the page itself
PageResponses(url) ==
  {Exc("Read timed out"), Resp(404, url), Resp(200, url), Resp(200, ThirdUrl)}

\* answers to the requests of the classifier while a whole request is handled
HandlerResponses(v, link_url, base_url, locale) ==
  {r \in Responses(v, link_url, base_url, locale) :
     \/ r.exc /\ r.text = "Read timed out"
     \/ ~r.exc /\ r.status = 404
     \/ ~r.exc /\ r.status = 200
          /\ r.url \in {link_url, ExpectedOf(v, link_url, base_url, locale)}}

(***************************************************************************)
(* State                                                                   *)
(***************************************************************************)
VARIABLES
  variant,        \* the program that is running
  pc,             \* position of the POST handler
  form,           \* request.form
  work,           \* position in the URLs (bulk) or in the locales (multi)
  pages,          \* the results of the pages done (bulk_results, localization_results)
  page,           \* the page whose links are analysed
  locale,         \* its locale
  links,          \* links_data: the URLs extracted from the page
  results,        \* results of the links classified so far
  net,            \* responses to the requests of the link being classified
  reqs,           \* those requests
  cur,            \* what the classifier has come to on the link being classified
  chrome_driver,  \* checker.chrome_driver is not None
  response,       \* what the handler answered
  probe,          \* the answer to the request that validates the input URL in hand
  now,            \* datetime.now() of the host
  files,          \* the files of the directory csv/, by name
  reports,        \* the calls of generate_csv_report that have begun
  document,       \* the HTML document handed to the link extraction
  ret             \* the value a function called on its own has returned

vars ==
  <<variant, pc, form, work, pages, page, locale, links, results, net, reqs, cur,
    chrome_driver, response, probe, now, files, reports, document, ret>>

\* the state of one POST without the reports, and the rest
HandlerVars ==
  <<variant, pc, form, work, pages, page, locale, links, results, net, reqs, cur,
    chrome_driver, response, probe>>

ReportAndCalls == <<now, files, reports, document, ret>>

\* the input URL has not been requested
NoProbe == [asked |-> FALSE, url |-> <<>>, at |-> 0, response |-> Exc("")]

\* no document: neither a main, a section nor a body element, and no anchor
NoDocument == [main |-> FALSE, section |-> FALSE, body |-> FALSE, anchors |-> <<>>]

NoValue == [kind |-> "none", value |-> <<>>]

\* midnight, an empty directory csv/, no report under way, no function called
\* on its own
Quiet ==
  /\ now = [hour |-> 0, minute |-> 0, second |-> 0]
  /\ files = [name \in {} |-> <<>>]
  /\ reports = [request \in {} |-> <<>>]
  /\ document = NoDocument
  /\ ret = NoValue

NoResponse == [kind |-> "none", stats |-> "", message |-> ""]

\* render_template_string(HTML_TEMPLATE, stats=..., ...)
Rendered(level, message) == [kind |-> "rendered", stats |-> level, message |-> message]

\* an exception leaves the view function: Flask answers 500
Unhandled(text) == [kind |-> "unhandled", stats |-> "", message |-> text]

\* no link is being classified
NoCall ==
  [kind |-> "none", method |-> "", url |-> <<>>,
   status |-> "", status_code |-> NoCode, note |-> "", text |-> ""]

Classifying == pc = "check" /\ Len(results) < Len(links)

CurLink == links[Len(results) + 1]

(***************************************************************************)
(* The loop over links_data                                                *)
(***************************************************************************)
\* a request of the classifier is answered by one of the responses in S
RespondFrom(S) ==
  /\ Classifying
  /\ cur.kind = "pending"
  /\ \E r \in S :
       /\ net' = Append(net, r)
       /\ reqs' = Append(reqs, [method |-> cur.method, url |-> cur.url])
       /\ cur' = Classify(variant, CurLink, page, locale, Append(net, r))
  /\ UNCHANGED <<variant, pc, form, work, pages, page, locale, links, results,
                 chrome_driver, response, probe>>
  /\ UNCHANGED ReportAndCalls

Respond == RespondFrom(Responses(variant, CurLink, page, locale))

\* FinishLink, but a result with status Error ends the loop unrecorded
FinishLink_StopsAtError ==
  /\ Classifying
  /\ cur.kind \in {"return", "malformed"}
  /\ IF cur.kind = "return" /\ cur.status # ERROR
     THEN /\ results' = Append(results,
                               [url |-> CurLink, status |-> cur.status,
                                status_code |-> cur.status_code,
                                note |-> cur.note, text |-> cur.text])
          /\ pc' = IF Len(results) + 1 = Len(links) THEN "stats" ELSE "check"
          /\ cur' = IF Len(results) + 1 = Len(links) THEN NoCall
                    ELSE Classify(variant, links[Len(results) + 2], page, locale, <<>>)
     ELSE /\ results' = results
          /\ pc' = "stats"
          /\ cur' = NoCall
  /\ response' = response
  /\ net' = <<>>
  /\ reqs' = <<>>
  /\ UNCHANGED <<variant, form, work, pages, page, locale, links, chrome_driver, probe>>
  /\ UNCHANGED ReportAndCalls

\* the classifier returns and the result is appended; the original program
\* unpacks the returned value into three names, which fails on False
FinishLink ==
  /\ Classifying
  /\ \/ /\ cur.kind = "return"
        /\ results' = Append(results,
                             [url |-> CurLink, status |-> cur.status,
                              status_code |-> cur.status_code,
                              note |-> cur.note, text |-> cur.text])
        /\ pc' = IF Len(results) + 1 = Len(links) THEN "stats" ELSE "check"
        /\ cur' = IF Len(results) + 1 = Len(links) THEN NoCall
                  ELSE Classify(variant, links[Len(results) + 2], page, locale, <<>>)
        /\ response' = response
     \/ /\ cur.kind = "malformed"
        /\ results' = results
        /\ pc' = "done"
        /\ cur' = NoCall
        /\ response' = Unhandled("TypeError: cannot unpack non-iterable bool object")
  /\ net' = <<>>
  /\ reqs' = <<>>
  /\ UNCHANGED <<variant, form, work, pages, page, locale, links, chrome_driver, probe>>
  /\ UNCHANGED ReportAndCalls

(***************************************************************************)
(* Classification of one link of a localized page                          *)
(***************************************************************************)
InitLink ==
  /\ variant \in Variants
  /\ pc = "check"
  /\ form = NoForm
  /\ work = 0
  /\ pages = <<>>
  /\ page \in LinkPages
  /\ locale = detect_language(page)
  /\ links \in {<<l>> : l \in LinkUniverse}
  /\ results = <<>>
  /\ net = <<>>
  /\ reqs = <<>>
  /\ cur = Classify(variant, links[1], page, locale, <<>>)
  /\ chrome_driver = FALSE
  /\ response = NoResponse
  /\ probe = NoProbe
  /\ Quiet

NextLink == Respond \/ FinishLink

SpecLink == InitLink /\ [][NextLink]_vars

(***************************************************************************)
(* The POST handlers (index) and the loops they run                        *)
(***************************************************************************)
\* LinkChecker.create_localized_url
create_localized_url(base_url, loc) ==
  LET parsed == urlparse(base_url)
  IN  parsed.scheme \o <<":", "/", "/">> \o parsed.netloc
        \o RStripSlash(<<"/">> \o loc \o parsed.path) \o <<"/">>

\* CONFIG['exclude_patterns'] of the original program, searched in the URL
OriginalExcluded(url) ==
  \/ \E p \in {<<"j", "a", "v", "a", "s", "c", "r", "i", "p", "t", ":">>, <<"d", "a", "t", "a", ":">>, <<"m", "a", "i", "l", "t", "o", ":">>, <<"t", "e", "l", ":">>, <<"#">>} :
       Contains(Lower(url), p)
  \/ \E p \in {<<".", "d", "o", "c">>, <<".", "d", "o", "c", "x">>, <<".", "z", "i", "p">>, <<".", "e", "x", "e">>} : EndsWith(Lower(url), p)

\* is_url_available, up to the HEAD request
AvailableBeforeRequest(url) ==
  /\ urlparse(url).scheme \in {<<"h", "t", "t", "p">>, <<"h", "t", "t", "p", "s">>}
  /\ urlparse(url).netloc # <<>>
  /\ Len(url) <= 2048
  /\ ~OriginalExcluded(url)

\* number of results whose status is in S
CountStatus(rs, S) == Cardinality({i \in 1..Len(rs) : rs[i].status \in S})

\* SuccessRate, but a page without links counts as fully working
SuccessRate_EmptyIsFull(working_links, total_links) ==
  IF total_links = 0 THEN 100 ELSE (working_links * 100) \div total_links

\* the rate in whole percent (the float of the code rounded down)

SuccessRate(working_links, total_links) ==
  IF total_links = 0 THEN 0 ELSE (working_links * 100) \div total_links

NoStats ==
  [present |-> FALSE, total_links |-> 0, working_links |-> 0, broken_links |-> 0,
   localization_defects |-> 0, warning_links |-> 0, success_rate |-> 0]

\* Stats, but a localization defect is counted as a broken link as well
Stats_DefectTwice(rs) ==
  [present |-> TRUE,
   total_links |-> Len(rs),
   working_links |-> CountStatus(rs, {SUCCESS}),
   broken_links |-> CountStatus(rs, {ERROR, DEFECT, LOCALIZATION_DEFECT}),
   localization_defects |-> CountStatus(rs, {LOCALIZATION_DEFECT}),
   warning_links |-> CountStatus(rs, {WARNING}),
   success_rate |-> SuccessRate(CountStatus(rs, {SUCCESS}), Len(rs))]

\* the statistics of one page (the original program keeps no warning_links)
Stats(rs) ==
  [present |-> TRUE,
   total_links |-> Len(rs),
   working_links |-> CountStatus(rs, {SUCCESS}),
   broken_links |-> CountStatus(rs, {ERROR, DEFECT}),
   localization_defects |-> CountStatus(rs, {LOCALIZATION_DEFECT}),
   warning_links |-> CountStatus(rs, {WARNING}),
   success_rate |-> SuccessRate(CountStatus(rs, {SUCCESS}), Len(rs))]

\* one entry of bulk_results or of localization_results
PageResult(url, loc, status, message, rs, stats) ==
  [url |-> url, locale |-> loc, status |-> status, message |-> message,
   links |-> rs, stats |-> stats]

\* the sums of the overall statistics: the links of the entries that have
\* links, the working links of the entries that have statistics
RECURSIVE OverallTotals(_)
OverallTotals(rs) ==
  IF rs = <<>> THEN [total_links |-> 0, total_working_links |-> 0]
  ELSE LET r == Head(rs)
           t == OverallTotals(Tail(rs))
       IN  [total_links |-> t.total_links + Len(r.links),
            total_working_links |->
              t.total_working_links + IF r.stats.present THEN r.stats.working_links ELSE 0]

overall_success_rate(rs) ==
  SuccessRate(OverallTotals(rs).total_working_links, OverallTotals(rs).total_links)

\* process_bulk_urls: the URLs from position i on that fail the format or the
\* prefix check get their result at once; next is the first URL that passes
RECURSIVE BulkSkip(_, _, _)
BulkSkip(urls, i, acc) ==
  IF i > Len(urls) THEN [pages |-> acc, next |-> i]
  ELSE IF ~is_valid_url(urls[i])
       THEN BulkSkip(urls, i + 1,
                     Append(acc, PageResult(urls[i], <<>>, "error", "Invalid URL format",
                                            <<>>, NoStats)))
       ELSE IF ~has_locale_prefix(urls[i])
            THEN BulkSkip(urls, i + 1,
                          Append(acc, PageResult(urls[i], <<>>, "error",
                                                 "URL must contain locale prefix",
                                                 <<>>, NoStats)))
            ELSE [pages |-> acc, next |-> i]

Goto(p, w, pg, loc, ps, drv, r) ==
  /\ pc' = p
  /\ work' = w
  /\ page' = pg
  /\ locale' = loc
  /\ pages' = ps
  /\ chrome_driver' = drv
  /\ response' = r

\* a variant of Return for a handler without finally: the driver is left as
\* it is
Return_NoCleanup(ps, r) == Goto("done", work, page, locale, ps, chrome_driver, r)

\* the handler returns r; where there is a checker, finally runs cleanup()
Return(ps, r) == Goto("done", work, page, locale, ps, FALSE, r)

\* every page has its result: the report is written (not by the bulk
\* program) and the page is rendered; only the original program has no
\* except clause around generate_csv_report
Finish(ps, csv_ok) ==
  IF variant = "bulk" THEN Return(ps, Rendered("stats", ""))
  ELSE IF csv_ok THEN Return(ps, Rendered("stats", "report_filename"))
  ELSE IF variant = "original" THEN Return(ps, Unhandled("OSError"))
  ELSE Return(ps, Rendered("error", "Unexpected error"))

\* the bulk loop goes on after the URLs that fail validation
BulkGoto(s, drv, csv_ok) ==
  IF s.next > Len(form.urls) THEN Finish(s.pages, csv_ok)
  ELSE Goto("probe", s.next, form.urls[s.next], detect_language(form.urls[s.next]),
            s.pages, drv, response)

\* the multi-locale loop goes on with the locale at position w
MultiGoto(w, ps, drv) ==
  Goto("access", w, create_localized_url(form.urls[1], form.localizations[w]),
       form.localizations[w], ps, drv, response)

\* NextPage, but a locale of the multi program that fails is the last one
NextPage_StopsAtError(pr, drv, csv_ok) ==
  IF variant = "bulk"
  THEN BulkGoto(BulkSkip(form.urls, work + 1, Append(pages, pr)), drv, csv_ok)
  ELSE IF variant = "multi" /\ work < Len(form.localizations) /\ pr.status # "error"
       THEN MultiGoto(work + 1, Append(pages, pr), drv)
       ELSE Finish(Append(pages, pr), csv_ok)

\* the page in hand is done with result pr: the next URL or locale, or the end
NextPage(pr, drv, csv_ok) ==
  IF variant = "bulk"
  THEN BulkGoto(BulkSkip(form.urls, work + 1, Append(pages, pr)), drv, csv_ok)
  ELSE IF variant = "multi" /\ work < Len(form.localizations)
       THEN MultiGoto(work + 1, Append(pages, pr), drv)
       ELSE Finish(Append(pages, pr), csv_ok)

\* GiveUp, but a page of the bulk program that fails ends the processing
GiveUp_StopsBulk(level, message, drv, csv_ok) ==
  IF variant = "multi" /\ work > 0
  THEN NextPage(PageResult(page, locale, "error", message, <<>>, NoStats), drv, csv_ok)
  ELSE IF variant = "bulk" /\ work > 0
       THEN Return(Append(pages, PageResult(page, locale, level, message, <<>>, NoStats)),
                   Rendered("stats", ""))
       ELSE Return(pages, Rendered(level, message))

\* the page in hand is given up: an early return of the handler, or an entry
\* without links and statistics in the loops of bulk and multi
GiveUp(level, message, drv, csv_ok) ==
  IF variant \in {"bulk", "multi"} /\ work > 0
  THEN NextPage(PageResult(page, locale, IF variant = "multi" THEN "error" ELSE level,
                           message, <<>>, NoStats), drv, csv_ok)
  ELSE Return(pages, Rendered(level, message))

\* the start of index(): the checks made before any request
PostOriginal(url) ==
  IF ~original_is_valid_url(url)
  THEN Return(pages, Rendered("warning", "Input is not a valid URL"))
  ELSE IF ~has_locale_prefix(url)
       THEN Return(pages, Rendered("warning", "Input URL is not localized"))
       ELSE IF ~AvailableBeforeRequest(url)
            THEN Return(pages, Rendered("warning", "Input URL is not valid or unavailable"))
            ELSE Goto("probe", 1, url, detect_language(url), pages, FALSE, response)

PostUpdated(url) ==
  IF ~is_valid_url(url)
  THEN Return(pages, Rendered("error", "Invalid URL format"))
  ELSE IF ~has_locale_prefix(url)
       THEN Return(pages, Rendered("error", "URL must contain locale prefix"))
       ELSE Goto("probe", 1, url, detect_language(url), pages, FALSE, response)

PostBulk(urls) ==
  IF urls = <<>>
  THEN Return(pages, Rendered("error", "Please enter at least one URL"))
  ELSE BulkGoto(BulkSkip(urls, 1, <<>>), FALSE, TRUE)

PostMulti(base_url, selected_localizations) ==
  IF base_url = <<>>
  THEN Return(pages, Rendered("error", "Please enter a base URL"))
  ELSE IF selected_localizations = <<>>
       THEN Return(pages, Rendered("error", "Please select at least one localization"))
       ELSE IF ~is_valid_url(base_url)
            THEN Return(pages, Rendered("error", "Invalid URL format"))
            ELSE IF has_locale_prefix(base_url)
                 THEN Return(pages, Rendered("error", "Base URL should not contain locale prefix"))
                 ELSE Goto("probe", 0, base_url, locale, pages, FALSE, response)

Post ==
  /\ pc = "post"
  /\ CASE variant = "original" -> PostOriginal(form.urls[1])
       [] variant = "updated" -> PostUpdated(form.urls[1])
       [] variant = "bulk" -> PostBulk(form.urls)
       [] variant = "multi" -> PostMulti(form.urls[1], form.localizations)
  /\ UNCHANGED <<variant, form, links, results, net, reqs, cur, probe>>
  /\ UNCHANGED ReportAndCalls

\* is_url_accessible of the multi-locale program
Access ==
  /\ pc = "access"
  /\ \E r \in PageResponses(page), csv_ok \in BOOLEAN :
       IF r.exc \/ r.status # 200
       THEN GiveUp("error", "Localized URL not accessible", chrome_driver, csv_ok)
       ELSE Goto("probe", work, page, locale, pages, chrome_driver, response)
  /\ UNCHANGED <<variant, form, links, results, net, reqs, cur, probe>>
  /\ UNCHANGED ReportAndCalls

\* is_url_available of the original program: a HEAD that must answer 200
ProbeOriginal(r) ==
  IF r.exc \/ r.status # 200
  THEN Return(pages, Rendered("warning", "Input URL is not valid or unavailable"))
  ELSE Goto("extract", work, page, locale, pages, chrome_driver, response)

\* a variant of ProbeRedirect that goes on with the page wherever the
\* request ended
ProbeRedirect_RedirectIgnored(r, csv_ok) ==
  IF r.exc \/ r.status # 200
  THEN GiveUp("error", "Cannot access URL", chrome_driver, csv_ok)
  ELSE IF variant = "multi" /\ work = 0
       THEN MultiGoto(1, pages, chrome_driver)
       ELSE Goto("extract", work, page, locale, pages, chrome_driver, response)

\* is_url_redirect and what its caller does with it: the multi-locale
\* program looks at the error alone once it is in the loop over the locales
ProbeRedirect(r, csv_ok) ==
  IF r.exc \/ r.status # 200
  THEN GiveUp("error", "Cannot access URL", chrome_driver, csv_ok)
  ELSE IF RStripSlash(r.url) # RStripSlash(page) /\ ~(variant = "multi" /\ work > 0)
       THEN GiveUp("warning", "URL redirects", chrome_driver, csv_ok)
       ELSE IF variant = "multi" /\ work = 0
            THEN MultiGoto(1, pages, chrome_driver)
            ELSE Goto("extract", work, page, locale, pages, chrome_driver, response)

Probe ==
  /\ pc = "probe"
  /\ \E r \in PageResponses(page), csv_ok \in BOOLEAN :
       /\ probe' = IF variant = "multi" /\ work > 0 THEN probe
                   ELSE [asked |-> TRUE, url |-> page, at |-> work, response |-> r]
       /\ IF variant = "original" THEN ProbeOriginal(r) ELSE ProbeRedirect(r, csv_ok)
  /\ UNCHANGED <<variant, form, links, results, net, reqs, cur>>
  /\ UNCHANGED ReportAndCalls

\* get_chrome_driver: the driver the checker has, or else a new one when one
\* can be started
DriverAfter(s) == chrome_driver \/ s.driver

\* what extract_links returns from its fallback
ExtractedLinks(s) == IF DriverAfter(s) THEN s.links ELSE <<>>

\* if not links_data
NoLinks(drv, csv_ok) ==
  IF variant = "original"
  THEN Return(pages, Rendered("warning", "No links found or error fetching page"))
  ELSE GiveUp("warning", "No links found", drv, csv_ok)

\* the loop over links_data begins
CheckLinks(links_data, drv) ==
  /\ Goto("check", work, page, locale, pages, drv, response)
  /\ links' = links_data
  /\ results' = <<>>
  /\ cur' = Classify(variant, links_data[1], page, locale, <<>>)

\* extract_links: requests first; when that failed or found no link the
\* browser is tried next (the original program has requests alone)
Extract ==
  /\ pc = "extract"
  /\ \E f \in Fetches, csv_ok \in BOOLEAN :
       IF f.ok /\ f.links # <<>>
       THEN CheckLinks(f.links, chrome_driver)
       ELSE /\ IF variant = "original"
               THEN NoLinks(chrome_driver, csv_ok)
               ELSE Goto("fallback", work, page, locale, pages, chrome_driver, response)
            /\ UNCHANGED <<links, results, cur>>
  /\ UNCHANGED <<variant, form, net, reqs, probe>>
  /\ UNCHANGED ReportAndCalls

\* extract_links, the fallback to Selenium
Fallback ==
  /\ pc = "fallback"
  /\ \E s \in Fallbacks, csv_ok \in BOOLEAN :
       IF ExtractedLinks(s) = <<>>
       THEN /\ NoLinks(DriverAfter(s), csv_ok)
            /\ UNCHANGED <<links, results, cur>>
       ELSE CheckLinks(ExtractedLinks(s), DriverAfter(s))
  /\ UNCHANGED <<variant, form, net, reqs, probe>>
  /\ UNCHANGED ReportAndCalls

HandlerRespond == RespondFrom(HandlerResponses(variant, CurLink, page, locale))

\* the statistics of the page, then the next page or the report
Report ==
  /\ pc = "stats"
  /\ \E csv_ok \in BOOLEAN :
       NextPage(PageResult(page, locale, "success", "", results, Stats(results)),
                chrome_driver, csv_ok)
  /\ links' = <<>>
  /\ results' = <<>>
  /\ UNCHANGED <<variant, form, net, reqs, cur, probe>>
  /\ UNCHANGED ReportAndCalls

Init ==
  /\ variant \in Variants
  /\ pc = "post"
  /\ form \in Forms(variant)
  /\ work = 0
  /\ pages = <<>>
  /\ page = <<>>
  /\ locale = <<>>
  /\ links = <<>>
  /\ results = <<>>
  /\ net = <<>>
  /\ reqs = <<>>
  /\ cur = NoCall
  /\ chrome_driver = FALSE
  /\ response = NoResponse
  /\ probe = NoProbe
  /\ Quiet

Next ==
  Post \/ Access \/ Probe \/ Extract \/ Fallback \/ HandlerRespond \/ FinishLink \/ Report

Spec == Init /\ [][Next]_vars

(***************************************************************************)
(* generate_csv_report, called by the POST requests the server handles in  *)
(* its threads: the name of the file comes from the clock, open(name, 'w') *)
(* creates or truncates it, and each writer writes at its own position     *)
(***************************************************************************)
\* last minute of the clock
MaxMinute == 1

\* the requests that reach generate_csv_report
Requests == {1, 2}

\* datetime.strftime("%Y%m%d_%H%M"): two digits for the hour and the minute;
\* the seconds are not part of the text
strftime(t) ==
  LET digits == <<"0", "1", "2", "3", "4", "5", "6", "7", "8", "9">>
      TwoDigits(n) == <<digits[(n \div 10) + 1], digits[(n % 10) + 1]>>
  IN  <<"2", "0", "2", "4", "0", "1", "0", "1", "_">> \o TwoDigits(t.hour) \o TwoDigits(t.minute)

\* filename = f"csv/l10n_{timestamp}.csv" (csv/multi_l10n_ in the multi program)
ReportName(v, timestamp) ==
  IF v = "multi"
  THEN <<"c", "s", "v", "/", "m", "u", "l", "t", "i", "_", "l", "1", "0", "n", "_">> \o timestamp \o <<".", "c", "s", "v">>
  ELSE <<"c", "s", "v", "/", "l", "1", "0", "n", "_">> \o timestamp \o <<".", "c", "s", "v">>

Row(loc, localized_url, url, status, base_url) ==
  [locale |-> loc, localized_url |-> localized_url, url |-> url, status |-> status,
   base_url |-> base_url]

\* the rows of the links of one page
LinkRows(loc, localized_url, rs, base_url) ==
  [i \in 1..Len(rs) |-> Row(loc, localized_url, rs[i].url, rs[i].status, base_url)]

\* the rows of the multi program: one for a locale with an error, else one
\* for each of its links
RECURSIVE LocaleRows(_, _)
LocaleRows(localization_results, base_url) ==
  IF localization_results = <<>> THEN <<>>
  ELSE LET locale_result == Head(localization_results)
       IN  (IF locale_result.status = "error"
            THEN <<Row(locale_result.locale, locale_result.url, <<>>, "error", base_url)>>
            ELSE LinkRows(locale_result.locale, locale_result.url, locale_result.links,
                          base_url))
           \o LocaleRows(Tail(localization_results), base_url)

\* what a call writes from the start of its file on: writeheader(), then the
\* rows
ReportRows(v, data, base_url) ==
  IF v = "multi"
  THEN <<Row(<<"l", "o", "c", "a", "l", "e">>, <<"l", "o", "c", "a", "l", "i", "z", "e", "d", "_", "u", "r", "l">>, <<"u", "r", "l">>, "status", <<"b", "a", "s", "e", "_", "u", "r", "l">>)>>
         \o LocaleRows(data, base_url)
  ELSE <<Row(<<>>, <<>>, <<"u", "r", "l">>, "status", <<"b", "a", "s", "e", "_", "u", "r", "l">>)>>
         \o LinkRows(<<>>, <<>>, data, base_url)

\* a write of row at position k of a file; a write beyond the end of the
\* file leaves a hole before it
WriteAt(content, k, row) ==
  [i \in 1..(IF k > Len(content) THEN k ELSE Len(content)) |->
     IF i = k THEN row
     ELSE IF i <= Len(content) THEN content[i] ELSE Row(<<>>, <<>>, <<>>, "", <<>>)]

\* results of the links of a page, as the handlers hand them over
ReportResults ==
  LET LinkResult(url, status) ==
        [url |-> url, status |-> status, status_code |-> NoCode, note |-> "None",
         text |-> ""]
  IN  {<<>>,
       <<LinkResult(PlainPage, SUCCESS)>>,
       <<LinkResult(PlainPage, ERROR), LinkResult(Site \o <<"/", "d", "e", "/", "p", "g">>, SUCCESS)>>}

\* the arguments of generate_csv_report in each program
ReportCalls(v) ==
  IF v = "multi"
  THEN {[data |-> <<PageResult(create_localized_url(Site \o <<"/">>, l), l, "error",
                               "Localized URL not accessible", <<>>, NoStats)>>,
         base_url |-> Site \o <<"/">>] : l \in {<<"d", "e">>, <<"e", "s">>}}
       \cup {[data |-> <<PageResult(PageDe, <<"d", "e">>, "success", "", rs, Stats(rs))>>,
              base_url |-> Site \o <<"/">>] : rs \in ReportResults \ {<<>>}}
  ELSE {[data |-> rs, base_url |-> b] : rs \in ReportResults, b \in LinkPages}

\* time passes, by half a minute
Tick ==
  LET later == IF now.second = 0 THEN [now EXCEPT !.second = 30]
               ELSE [now EXCEPT !.minute = now.minute + 1, !.second = 0]
  IN  /\ later.minute <= MaxMinute
      /\ now' = later
      /\ UNCHANGED <<HandlerVars, files, reports, document, ret>>

\* timestamp = datetime.now().strftime(...); filename = ...
NameReport ==
  \E request \in Requests :
    /\ reports[request].pc = "called"
    /\ reports' = [reports EXCEPT ![request].pc = "named",
                                  ![request].filename = ReportName(variant, strftime(now))]
    /\ UNCHANGED <<HandlerVars, now, files, document, ret>>

\* open(filename, 'w', ...): the file is created, or emptied when it exists
OpenReport ==
  \E request \in Requests :
    /\ reports[request].pc = "named"
    /\ reports' = [reports EXCEPT ![request].pc = "open"]
    /\ files' = [name \in DOMAIN files \cup {reports[request].filename} |->
                   IF name = reports[request].filename THEN <<>> ELSE files[name]]
    /\ UNCHANGED <<HandlerVars, now, document, ret>>

\* writeheader() and writerow(): the next row goes to the position of this
\* writer
WriteReport ==
  \E request \in Requests :
    LET call == reports[request]
        rows == ReportRows(variant, call.data, call.base_url)
    IN  /\ call.pc = "open"
        /\ call.written < Len(rows)
        /\ files' = [files EXCEPT ![call.filename] =
                       WriteAt(@, call.written + 1, rows[call.written + 1])]
        /\ reports' = [reports EXCEPT ![request].written = call.written + 1]
        /\ UNCHANGED <<HandlerVars, now, document, ret>>

\* the end of the with block
CloseReport ==
  \E request \in Requests :
    LET call == reports[request]
    IN  /\ call.pc = "open"
        /\ call.written = Len(ReportRows(variant, call.data, call.base_url))
        /\ reports' = [reports EXCEPT ![request].pc = "closed"]
        /\ UNCHANGED <<HandlerVars, now, files, document, ret>>

InitCsv ==
  /\ variant \in {"original", "updated", "multi"}
  /\ pc = "report"
  /\ form = NoForm
  /\ work = 0
  /\ pages = <<>>
  /\ page = <<>>
  /\ locale = <<>>
  /\ links = <<>>
  /\ results = <<>>
  /\ net = <<>>
  /\ reqs = <<>>
  /\ cur = NoCall
  /\ chrome_driver = FALSE
  /\ response = NoResponse
  /\ probe = NoProbe
  /\ now = [hour |-> 0, minute |-> 0, second |-> 0]
  /\ files = [name \in {} |-> <<>>]
  /\ reports \in [Requests -> {[pc |-> "called", data |-> call.data,
                                 base_url |-> call.base_url, filename |-> <<>>,
                                 written |-> 0] : call \in ReportCalls(variant)}]
  /\ document = NoDocument
  /\ ret = NoValue

NextCsv == Tick \/ NameReport \/ OpenReport \/ WriteReport \/ CloseReport

SpecCsv == InitCsv /\ [][NextCsv]_vars

(***************************************************************************)
(* Link extraction: _parse_links and get_main_content_sections of the      *)
(* LinkChecker programs, extract_links_from_main_content of the original.  *)
(* A document is the elements it has (main, section, body) and its anchors *)
(* in document order, each with its href and the innermost of these        *)
(* elements around it ("outside" when there is none); main and section     *)
(* elements lie inside the body when the document has one.                 *)
(***************************************************************************)
\* CONFIG['max_links_per_page'] (200 in the source)
max_links_per_page == 2

\* urllib.parse.urljoin(base_url, href) for an href that is empty, an
\* absolute URL, //host/path, /path or a relative path without dot segments
urljoin(base_url, href) ==
  LET base == urlparse(base_url)
      slashes == {k \in 1..Len(base.path) : base.path[k] = "/"}
      dir == IF slashes = {} THEN <<"/">>
             ELSE SubSeq(base.path, 1, CHOOSE k \in slashes : \A j \in slashes : j <= k)
  IN  IF href = <<>> THEN base_url
      ELSE IF urlparse(href).scheme # <<>> THEN href
      ELSE IF StartsWith(href, <<"/", "/">>) THEN base.scheme \o <<":">> \o href
      ELSE IF href[1] = "/" THEN base.scheme \o <<":", "/", "/">> \o base.netloc \o href
      ELSE base.scheme \o <<":", "/", "/">> \o base.netloc \o dir \o href

\* the hrefs that are skipped: CONFIG['exclude_patterns'] searched without
\* regard to case; in the original program 'pag=' in href
ExcludedHref(v, href) ==
  IF v = "original" THEN Contains(href, <<"p", "a", "g", "=">>)
  ELSE OriginalExcluded(href) \/ Contains(Lower(href), <<"p", "a", "g", "=">>)

\* the elements whose anchors are taken, or the AttributeError of
\* soup.body.find('main') on a document without body (bulk program)
get_main_content_sections(v, soup) ==
  IF soup.main THEN [raised |-> FALSE, sources |-> <<"main">>]
  ELSE IF v = "original"
       THEN [raised |-> FALSE, sources |-> IF soup.body THEN <<"body">> ELSE <<"document">>]
  ELSE IF v = "bulk" /\ ~soup.body THEN [raised |-> TRUE, sources |-> <<>>]
  ELSE IF soup.body
       THEN [raised |-> FALSE,
             sources |-> IF soup.section THEN <<"section">> ELSE <<"body">>]
       ELSE [raised |-> FALSE, sources |-> <<"document">>]

\* source.find_all('a', href=True): the anchors inside the element
find_all(soup, source) ==
  SelectSeq(soup.anchors,
            LAMBDA a : \/ source = "document"
                       \/ source = "body" /\ a.place # "outside"
                       \/ source = a.place)

\* the list links of _parse_links: the resolved URLs of the anchors of the
\* sources that are not skipped
RECURSIVE Candidates(_, _, _, _)
Candidates(v, soup, sources, base_url) ==
  IF sources = <<>> THEN <<>>
  ELSE LET kept == SelectSeq(find_all(soup, Head(sources)),
                             LAMBDA a : ~ExcludedHref(v, a.href))
       IN  [i \in 1..Len(kept) |-> urljoin(base_url, kept[i].href)]
           \o Candidates(v, soup, Tail(sources), base_url)

\* a variant of Unique that keeps every record
Unique_KeepsAll(urls, seen) == urls

\* the loop over links with the set seen
RECURSIVE Unique(_, _)
Unique(urls, seen) ==
  IF urls = <<>> THEN <<>>
  ELSE IF Head(urls) \in seen THEN Unique(Tail(urls), seen)
       ELSE <<Head(urls)>> \o Unique(Tail(urls), seen \cup {Head(urls)})

\* unique_links[:CONFIG['max_links_per_page']]
_parse_links(v, soup, base_url) ==
  LET unique_links == Unique(Candidates(v, soup, get_main_content_sections(v, soup).sources,
                                        base_url), {})
  IN  SubSeq(unique_links, 1,
             IF Len(unique_links) > max_links_per_page THEN max_links_per_page
             ELSE Len(unique_links))

\* the hrefs of the anchors of a page at PageDe: two of them resolve to the
\* same URL
Hrefs == {<<"/", "p", "g">>, <<"p", "g">>, Site \o <<"/", "d", "e", "/", "p", "g">>, <<"/", "o">>}

\* the documents handed to the extraction: the elements they have, the
\* places where their anchors are, and one anchor more than the limit at most
Documents ==
  LET Shape(m, s, b, places) == [main |-> m, section |-> s, body |-> b, places |-> places]
      Shapes == {Shape(TRUE, TRUE, TRUE, {"main", "section"}),
                 Shape(TRUE, FALSE, TRUE, {"main", "body"}),
                 Shape(TRUE, FALSE, FALSE, {"main", "outside"}),
                 Shape(FALSE, TRUE, TRUE, {"section", "body"}),
                 Shape(FALSE, TRUE, FALSE, {"section", "outside"}),
                 Shape(FALSE, FALSE, TRUE, {"body"}),
                 Shape(FALSE, FALSE, FALSE, {"outside"})}
  IN  UNION {{[main |-> d.main, section |-> d.section, body |-> d.body, anchors |-> as] :
                as \in SeqsUpTo({[href |-> h, place |-> p] : h \in Hrefs, p \in d.places},
                                max_links_per_page + 1)} : d \in Shapes}

\* _parse_links(soup, base_url) is called and returns, or raises
ParseLinks ==
  /\ pc = "parse"
  /\ pc' = "parsed"
  /\ ret' = IF get_main_content_sections(variant, document).raised
            THEN [kind |-> "raise", value |-> <<"A", "t", "t", "r", "i", "b", "u", "t", "e", "E", "r", "r", "o", "r">>]
            ELSE [kind |-> "return", value |-> _parse_links(variant, document, page)]
  /\ UNCHANGED <<variant, form, work, pages, page, locale, links, results, net, reqs, cur,
                 chrome_driver, response, probe, now, files, reports, document>>

InitExtract ==
  /\ variant \in Variants
  /\ pc = "parse"
  /\ form = NoForm
  /\ work = 0
  /\ pages = <<>>
  /\ page = PageDe
  /\ locale = <<>>
  /\ links = <<>>
  /\ results = <<>>
  /\ net = <<>>
  /\ reqs = <<>>
  /\ cur = NoCall
  /\ chrome_driver = FALSE
  /\ response = NoResponse
  /\ probe = NoProbe
  /\ now = [hour |-> 0, minute |-> 0, second |-> 0]
  /\ files = [name \in {} |-> <<>>]
  /\ reports = [request \in {} |-> <<>>]
  /\ document \in Documents
  /\ ret = NoValue

SpecExtract == InitExtract /\ [][ParseLinks]_vars

(***************************************************************************)
(* Properties of the classification of one link                            *)
(***************************************************************************)
\* the response is an HTTP 200
Ok200(r) == ~r.exc /\ r.status = 200

\* a LinkChecker program has returned from check_link_localization
ClassReturned == Classifying /\ variant \in ClassVariants /\ cur.kind = "return"

\* every request for the link itself was answered 200
LinkLoads200 == \A i \in 1..Len(reqs) : reqs[i].url = CurLink => Ok200(net[i])

\* the host of the link does not contain the site's domain
OffSite(url) ==
  LET host == Lower(urlparse(url).netloc)
  IN  ~Contains(host, <<"n", "a", "k", "i", "v", "o", ".", "c", "o", "m">>)

\* the path of the link starts with the segment /<locale>
HasPagePrefix(url) ==
  LET path == urlparse(url).path
  IN  \/ path = <<"/">> \o locale
      \/ StartsWith(path, <<"/">> \o locale \o <<"/">>)

\* the path of the link is a PDF named ...-<locale>.pdf or ..._<locale>.pdf
HasPdfSuffix(url) ==
  LET path == Lower(urlparse(url).path)
  IN  \/ EndsWith(path, <<"-">> \o Lower(locale) \o <<".", "p", "d", "f">>)
      \/ EndsWith(path, <<"_">> \o Lower(locale) \o <<".", "p", "d", "f">>)

\* the i-th request went to the expected localized URL of the link
ToExpected(i) == reqs[i].url = _get_expected_localized_url(CurLink, locale)

\* cleaned final URL of the i-th response
FinalClean(i) == _remove_fragments(net[i].url)

\* a link of the site without the page's locale, which loads
PlainLinkReturned ==
  /\ ClassReturned
  /\ ~OffSite(CurLink)
  /\ ~HasPagePrefix(CurLink)
  /\ LinkLoads200

\* C1: (updated, bulk, multi) a link of the site that loads with 200 and has
\* no locale prefix, whose expected localized URL answers 200 with a final
\* URL equal (cleaned) to the expected URL and different from the link, is a
\* localization_defect with status_code 200.
C1_DefectWhenLocalizedPageExists ==
  PlainLinkReturned =>
    \A i \in 1..Len(reqs) :
      ( /\ ToExpected(i)
        /\ Ok200(net[i])
        /\ FinalClean(i) = _remove_fragments(reqs[i].url)
        /\ FinalClean(i) # _remove_fragments(CurLink) )
      => cur.status = LOCALIZATION_DEFECT /\ cur.status_code = 200

C1_Witness ==
  /\ PlainLinkReturned
  /\ Len(reqs) = 3
  /\ ToExpected(3)
  /\ Ok200(net[3])
  /\ net[3].url # reqs[3].url
  /\ FinalClean(3) = _remove_fragments(reqs[3].url)
  /\ cur.status = LOCALIZATION_DEFECT

\* the link is a page (not a PDF) and the page's locale is de
PlainPageLinkOnDe ==
  /\ PlainLinkReturned
  /\ locale = <<"d", "e">>
  /\ ~EndsWith(Lower(urlparse(CurLink).path), <<".", "p", "d", "f">>)

\* C2, as stated: a non-localized link /page on a de page is a
\* localization_defect whenever /de/page resolves with 200 and what it
\* resolves to differs from /page.
C2_DefectWheneverLocalizedResolves ==
  PlainPageLinkOnDe =>
    \A i \in 1..Len(reqs) :
      (ToExpected(i) /\ Ok200(net[i]) /\ FinalClean(i) # _remove_fragments(CurLink))
      => cur.status = LOCALIZATION_DEFECT

\* C2, amended: it is a localization_defect exactly when the final URL of
\* /de/page is /de/page itself; when /de/page ends on /page or on any other
\* URL the link is a success.
C2_DefectOnlyWhenFinalIsLocalized ==
  PlainPageLinkOnDe =>
    \A i \in 1..Len(reqs) :
      (ToExpected(i) /\ Ok200(net[i]))
      => /\ cur.status \in {LOCALIZATION_DEFECT, SUCCESS}
         /\ cur.status = LOCALIZATION_DEFECT
              <=> FinalClean(i) = _remove_fragments(reqs[i].url)

C2_Witness ==
  /\ PlainPageLinkOnDe
  /\ Len(reqs) = 3
  /\ ToExpected(3)
  /\ Ok200(net[3])
  /\ net[3].url = ThirdUrl
  /\ cur.status = SUCCESS

\* C3, as stated: an expected localized URL that raises or answers non-200
\* makes the link a success.
C3_UnreachableExpectedIsSuccess ==
  PlainLinkReturned =>
    \A i \in 1..Len(reqs) :
      (ToExpected(i) /\ ~Ok200(net[i])) => cur.status = SUCCESS

\* C3, amended: (updated, bulk, multi) a non-200 answer of the expected
\* localized URL makes the link a success with no status code; a request
\* that raises makes it an error carrying the exception text.
C3_Non200IsSuccessExceptionIsError ==
  PlainLinkReturned =>
    \A i \in 1..Len(reqs) :
      ToExpected(i) =>
        /\ (~net[i].exc /\ net[i].status # 200)
             => cur.status = SUCCESS /\ cur.status_code = NoCode /\ cur.note # "None"
        /\ net[i].exc => cur.status = ERROR /\ cur.text = net[i].text

C3_Witness ==
  /\ PlainLinkReturned
  /\ Len(reqs) = 3
  /\ ToExpected(3)
  /\ ~net[3].exc
  /\ net[3].status = 404
  /\ cur.status = SUCCESS

\* C4: a link without the locale whose expected localized URL answers 200
\* with a final URL that is neither the link nor the expected URL is a
\* success with a note, in every program.
C4_ThirdTargetIsSuccessWithNote ==
  ( /\ Classifying
    /\ cur.kind = "return"
    /\ ~OffSite(CurLink)
    /\ ~HasPagePrefix(CurLink) )
  => \A i \in 1..Len(reqs) :
       ( /\ reqs[i].method = "GET"
         /\ reqs[i].url # CurLink
         /\ Ok200(net[i])
         /\ FinalClean(i) # _remove_fragments(CurLink)
         /\ FinalClean(i) # _remove_fragments(reqs[i].url) )
       => cur.status = SUCCESS /\ cur.note # "None"

\* C5: (updated, bulk, multi) a first GET of the link that answers another
\* status than 200 ends the classification at once: error with that status
\* code, after this one request, for links of any domain and any locale.
C5_BrokenLinkIsErrorFirst ==
  ( /\ Classifying
    /\ variant \in ClassVariants
    /\ Len(net) >= 1
    /\ ~net[1].exc
    /\ net[1].status # 200 )
  => /\ cur.kind = "return"
     /\ cur.status = ERROR
     /\ cur.status_code = net[1].status
     /\ Len(reqs) = 1

C5_Witness ==
  /\ ClassReturned
  /\ OffSite(CurLink)
  /\ Len(net) = 1
  /\ net[1].status = 500
  /\ cur.status = ERROR
  /\ cur.status_code = 500

C7_LocalizedWithoutRedirect ==
  ( /\ Classifying
    /\ variant \in ClassVariants
    /\ ~OffSite(CurLink)
    /\ HasPagePrefix(CurLink)
    /\ Len(net) = 2
    /\ Ok200(net[1])
    /\ Ok200(net[2])
    /\ RStripSlash(net[2].url) = RStripSlash(CurLink) )
  => /\ cur.kind = "return"
     /\ cur.status = SUCCESS
     /\ cur.status_code = 200
     /\ cur.note = "None"

C7_Witness ==
  /\ ClassReturned
  /\ HasPagePrefix(CurLink)
  /\ Len(net) = 2
  /\ Ok200(net[2])
  /\ net[2].url # CurLink
  /\ RStripSlash(net[2].url) = RStripSlash(CurLink)
  /\ cur.note = "None"

\* C8: (updated, bulk, multi) for a link of the site that carries the
\* locale, as a path prefix or as a PDF suffix, the second fetch of the
\* link decides: 200 on another final URL is a success with a redirect
\* note, a non-200 answer is a localization_defect.
C8_RefetchDecidesLocalized ==
  ( /\ ClassReturned
    /\ ~OffSite(CurLink)
    /\ HasPagePrefix(CurLink) \/ HasPdfSuffix(CurLink)
    /\ Len(net) >= 2
    /\ Ok200(net[1])
    /\ ~net[2].exc )
  => /\ (net[2].status = 200 /\ RStripSlash(net[2].url) # RStripSlash(CurLink))
          => cur.status = SUCCESS /\ cur.note = "Redirected to"
     /\ net[2].status # 200 => cur.status = LOCALIZATION_DEFECT

\* C9: in every program a request that raises makes the result an error
\* carrying the exception text, and the classifier never hands its caller
\* anything but a (status, status_code, issue) result.
C9_ExceptionsBecomeErrorResults ==
  Classifying =>
    /\ cur.kind \in {"pending", "return"}
    /\ \A i \in 1..Len(net) :
         net[i].exc => cur.kind = "return" /\ cur.status = ERROR /\ cur.text = net[i].text

\* number of requests made for url while the link is classified
Requested(url) == Cardinality({i \in 1..Len(reqs) : reqs[i].url = url})

\* C11 as stated: while one link is classified no URL is requested a second
\* time.
C11_EachUrlRequestedOnce ==
  Classifying => \A i, j \in 1..Len(reqs) : reqs[i].url = reqs[j].url => i = j

\* C11: (updated, bulk, multi) while one link is classified the link is
\* requested at most twice (the GET of check_link_localization and the
\* re-fetch of the branch taken, made only after the first answered 200), the
\* expected localized URL at most once and no other URL at all; a request
\* that fails (an exception or a status other than 200) is the last one: the
\* classifier returns on it and requests nothing more.
C11_OneRefetchAndNoRetry ==
  (Classifying /\ variant \in ClassVariants) =>
    /\ Requested(CurLink) <= 2
    /\ \A i \in 1..Len(reqs) :
         /\ reqs[i].url # CurLink => ToExpected(i) /\ Requested(reqs[i].url) = 1
         /\ ~Ok200(net[i]) => i = Len(net) /\ cur.kind = "return"
         /\ i > 1 => Ok200(net[1])

C11_Witness ==
  /\ Classifying
  /\ variant \in ClassVariants
  /\ Len(reqs) = 3
  /\ Requested(CurLink) = 2
  /\ ToExpected(3)
  /\ ~Ok200(net[3])
  /\ cur.kind = "return"

(***************************************************************************)
(* The URL functions applied to one URL                                    *)
(***************************************************************************)
\* _get_expected_localized_url(url, locale) is called and returns (None is
\* the empty text)
GetExpectedLocalizedUrl ==
  /\ pc = "call"
  /\ pc' = "expected"
  /\ ret' = [kind |-> "return", value |-> _get_expected_localized_url(page, locale)]
  /\ UNCHANGED <<variant, form, work, pages, page, locale, links, results, net, reqs, cur,
                 chrome_driver, response, probe, now, files, reports, document>>

\* has_locale_prefix(url) is called and returns
HasLocalePrefix ==
  /\ pc = "call"
  /\ pc' = "prefix"
  /\ ret' = [kind |-> "return",
             value |-> IF has_locale_prefix(page) THEN <<"T", "r", "u", "e">> ELSE <<"F", "a", "l", "s", "e">>]
  /\ UNCHANGED <<variant, form, work, pages, page, locale, links, results, net, reqs, cur,
                 chrome_driver, response, probe, now, files, reports, document>>

\* detect_language(url) is called and returns
DetectLanguage ==
  /\ pc = "call"
  /\ pc' = "language"
  /\ ret' = [kind |-> "return", value |-> detect_language(page)]
  /\ UNCHANGED <<variant, form, work, pages, page, locale, links, results, net, reqs, cur,
                 chrome_driver, response, probe, now, files, reports, document>>

\* the URL is a scheme and host, a path and a query or none; the paths are
\* with and without a locale segment, a PDF extension, a locale suffix
InitUrl ==
  /\ variant = "updated"
  /\ pc = "call"
  /\ form = NoForm
  /\ work = 0
  /\ pages = <<>>
  /\ page \in { origin \o path \o query :
                  origin \in {Site, <<"H", "T", "T", "P", ":", "/", "/", "N", "a", "k", "i", "v", "o", ".", "c", "o", "m">>},
                  path \in {<<>>, <<"/">>, <<"/", "p", "g">>, <<"/", "p", "g", "/", "x">>, <<"/", "d", "e">>, <<"/", "d", "e", "/">>, <<"/", "d", "e", "/", "x">>,
                            <<"/", "D", "E", "/", "x">>, <<"/", "d", "e", "u", "/", "x">>, <<"/", "e", "s", "/", "x">>, <<"/", "f", "r", "-", "f", "r", "/", "y">>, <<"/", "f", "r", "-", "f", "r">>,
                            <<"/", "x", "/", "d", "e", "/">>, <<"/", "a", ".", "p", "d", "f">>, <<"/", "a", ".", "P", "D", "F">>, <<"/", "d", "e", "/", "a", ".", "p", "d", "f">>,
                            <<"/", "a", "-", "d", "e", ".", "p", "d", "f">>, <<"/", "a", ".", "p", "d", "f", "/">>, <<"/", "d", "e", "/", "f", "r", "/", "x">>, <<"/", "G", "e", "r", "m", "a", "n", "/", "x">>},
                  query \in {<<>>, <<"?", "q", "=", ".", "p", "d", "f">>} }
  /\ locale \in {LanguageOrder[k] : k \in 1..Len(LanguageOrder)}
  /\ links = <<>>
  /\ results = <<>>
  /\ net = <<>>
  /\ reqs = <<>>
  /\ cur = NoCall
  /\ chrome_driver = FALSE
  /\ response = NoResponse
  /\ probe = NoProbe
  /\ Quiet

NextUrl == GetExpectedLocalizedUrl \/ HasLocalePrefix \/ DetectLanguage

SpecUrl == InitUrl /\ [][NextUrl]_vars

(***************************************************************************)
(* Properties of the link extraction                                       *)
(***************************************************************************)
\* _parse_links has returned
Parsed == pc = "parsed" /\ ret.kind = "return"

\* the resolved URLs of the anchors the extraction takes, in the order of
\* the document, before duplicates are dropped
Found ==
  Candidates(variant, document, get_main_content_sections(variant, document).sources, page)

\* position of the first record of Found with this URL
FirstAt(url) == CHOOSE k \in 1..Len(Found) : Found[k] = url /\ \A j \in 1..(k - 1) : Found[j] # url

\* C15: the list returned by the link extraction has no URL twice, has at
\* most max_links_per_page entries, holds only URLs of anchors of the
\* document, in the order of their first appearance, and leaves a URL out
\* only when the limit is reached by URLs that appear before it.
C15_UniqueOrderedAndLimited ==
  Parsed =>
    /\ \A i, j \in 1..Len(ret.value) : ret.value[i] = ret.value[j] => i = j
    /\ Len(ret.value) <= max_links_per_page
    /\ \A i \in 1..Len(ret.value) : \E k \in 1..Len(Found) : Found[k] = ret.value[i]
    /\ \A i, j \in 1..Len(ret.value) :
         i < j => FirstAt(ret.value[i]) < FirstAt(ret.value[j])
    /\ \A k \in 1..Len(Found) :
         (\A i \in 1..Len(ret.value) : ret.value[i] # Found[k]) =>
           /\ Len(ret.value) = max_links_per_page
           /\ FirstAt(ret.value[max_links_per_page]) < k

\* three anchors in main, the first and the last with different hrefs that
\* resolve to the same URL: two records
C15_Witness ==
  /\ Parsed
  /\ variant = "updated"
  /\ document.main
  /\ Len(document.anchors) = 3
  /\ \A k \in 1..3 : document.anchors[k].place = "main"
  /\ document.anchors[1].href = <<"p", "g">>
  /\ document.anchors[2].href = <<"/", "o">>
  /\ document.anchors[3].href = Site \o <<"/", "d", "e", "/", "p", "g">>
  /\ ret.value = <<Site \o <<"/", "d", "e", "/", "p", "g">>, Site \o <<"/", "o">>>>

\* the elements the anchors are taken from: a main element, else the section
\* elements of the body, else body, else the whole document
FirstAvailable(soup) ==
  IF soup.main THEN <<"main">>
  ELSE IF soup.body /\ soup.section THEN <<"section">>
  ELSE IF soup.body THEN <<"body">>
  ELSE <<"document">>

\* C16: in every program the extraction returns, and what it returns are the
\* links of the anchors of the first available of: the main element, the
\* section elements, body, the whole document; for a document with neither
\* main nor body these are the anchors of the whole document.
C16_FirstAvailableRegion ==
  pc = "parsed" =>
    /\ ret.kind = "return"
    /\ LET unique_links == Unique(Candidates(variant, document, FirstAvailable(document),
                                             page), {})
       IN  ret.value = SubSeq(unique_links, 1,
                              IF Len(unique_links) > max_links_per_page
                              THEN max_links_per_page ELSE Len(unique_links))

(***************************************************************************)
(* Properties of the POST handlers                                         *)
(***************************************************************************)
\* C10: in every program the POST handler ends in a rendered page, whatever
\* was raised while the URL was validated, its links extracted and
\* classified, the statistics computed and the CSV report written; no
\* exception leaves the handler.
C10_HandlerAlwaysRenders ==
  pc = "done" => response.kind = "rendered"

(***************************************************************************)
(* Properties of the CSV reports                                           *)
(***************************************************************************)
\* the call has its file name
Named(request) == reports[request].pc \in {"named", "open", "closed"}

\* C12: any two requests that reach generate_csv_report write files of
\* different names, and the file of a request that has written its report
\* holds the rows of that request and nothing else.
C12_EachRequestItsOwnFile ==
  \A a, b \in Requests :
    /\ (a # b /\ Named(a) /\ Named(b)) => reports[a].filename # reports[b].filename
    /\ reports[a].pc = "closed" =>
         files[reports[a].filename]
           = ReportRows(variant, reports[a].data, reports[a].base_url)

\* C13: (updated, bulk, multi) a browser driver comes into being only in the
\* fallback of extract_links, which is entered only after the fetch with
\* requests failed or gave no link; once there is a driver it is kept, and
\* used again for the later pages, until the handler ends, so that a request
\* creates at most one; and whenever the handler has ended (after a normal
\* return, an early return or an exception) cleanup has run and
\* chrome_driver is None.
C13_DriverLifecycle ==
  /\ [][(~chrome_driver /\ chrome_driver') =>
          (pc = "fallback" /\ variant \in ClassVariants)]_vars
  /\ [][(chrome_driver /\ ~chrome_driver') => pc' = "done"]_vars
  /\ [](pc = "done" => ~chrome_driver)

\* the driver started for an earlier page is there when a later page of the
\* same request falls back, and the handler goes on to its end
C13_Witness ==
  /\ variant \in {"bulk", "multi"}
  /\ pc = "fallback"
  /\ chrome_driver
  /\ Len(pages) >= 1

\* the links of a page are being extracted or classified
Analysing == pc \in {"extract", "fallback", "check", "stats"}

\* the URL entered in the form whose page, or whose localized pages, are in
\* hand
InputUrl == IF variant = "multi" THEN form.urls[1] ELSE page

\* the request for the input URL ended on another URL
Redirected == Ok200(probe.response) /\ RStripSlash(probe.response.url) # RStripSlash(probe.url)

C17_ResultsOneToOne ==
  /\ pc \in {"check", "stats"} =>
       /\ Len(results) <= Len(links)
       /\ \A i \in 1..Len(results) : results[i].url = links[i]
  /\ pc = "stats" => Len(results) = Len(links)
  /\ \A k \in 1..Len(pages) :
       pages[k].stats.present => pages[k].stats.total_links = Len(pages[k].links)

\* two different links are classified, one of them with status Error
C17_Witness ==
  /\ pc = "stats"
  /\ variant \in ClassVariants
  /\ Len(links) = 2
  /\ links[1] # links[2]
  /\ results[1].status = ERROR
  /\ results[2].status # ERROR

\* rate is the whole-percent part of working / total * 100, and 0 for no links
GuardedRate(rate, working, total) ==
  /\ working <= total
  /\ total = 0 => rate = 0
  /\ total > 0 => /\ rate * total <= working * 100
                  /\ working * 100 < (rate + 1) * total
  /\ rate \in 0..100

\* C18: the success rate of every recorded page and the overall success rate
\* of a finished request are 0 when the number of links is 0, and working /
\* total * 100 otherwise, which lies between 0 and 100.
C18_SuccessRateGuarded ==
  /\ \A k \in 1..Len(pages) :
       pages[k].stats.present =>
         GuardedRate(pages[k].stats.success_rate, pages[k].stats.working_links,
                     pages[k].stats.total_links)
  /\ (pc = "done" /\ variant \in {"bulk", "multi"}) =>
       GuardedRate(overall_success_rate(pages),
                   OverallTotals(pages).total_working_links,
                   OverallTotals(pages).total_links)

\* a finished request none of whose pages has a link
C18_Witness ==
  /\ pc = "done"
  /\ variant = "bulk"
  /\ Len(pages) = 2
  /\ OverallTotals(pages).total_links = 0
  /\ overall_success_rate(pages) = 0

(***************************************************************************)
(* Properties of the URL functions                                         *)
(***************************************************************************)
\* the path of the URL in hand
InPath == urlparse(page).path

\* the path ends in .pdf, in any case of the letters
IsPdfPath == EndsWith(Lower(InPath), <<".", "p", "d", "f">>)

\* the path the expected URL is to have: the extension replaced by _ES.pdf
\* for es and by -L.pdf for another locale L, or /L put before the path
LocalizedPath ==
  IF IsPdfPath
  THEN SubSeq(InPath, 1, Len(InPath) - 4)
         \o (IF locale = <<"e", "s">> THEN <<"_", "E", "S", ".", "p", "d", "f">> ELSE <<"-">> \o locale \o <<".", "p", "d", "f">>)
  ELSE <<"/">> \o locale \o InPath

\* the returned URL has the scheme and the host of the URL in hand and the
\* localized path
ReturnsLocalized ==
  /\ ret.value # <<>>
  /\ urlparse(ret.value).scheme = urlparse(page).scheme
  /\ urlparse(ret.value).netloc = urlparse(page).netloc
  /\ urlparse(ret.value).path = LocalizedPath

\* the path is /L or begins with /L/
UnderLocale == InPath = <<"/">> \o locale \/ StartsWith(InPath, <<"/">> \o locale \o <<"/">>)

RECURSIVE Segments(_, _)
Segments(path, segment) ==
  IF path = <<>> THEN <<segment>>
  ELSE IF Head(path) = "/" THEN <<segment>> \o Segments(Tail(path), <<>>)
       ELSE Segments(Tail(path), Append(segment, Head(path)))

\* a language code of the program, alone or extended by a region of two letters
IsLocaleSegment(segment) ==
  /\ Len(segment) \in {2, 5}
  /\ SubSeq(segment, 1, 2) \in {LanguageOrder[k] : k \in 1..Len(LanguageOrder)} \cup {<<"e", "n">>}
  /\ Len(segment) = 5 =>
       /\ segment[3] = "-"
       /\ segment[4] \in LowerLetters
       /\ segment[5] \in LowerLetters

\* the path has no locale segment
LacksLocaleSegment ==
  \A k \in 1..Len(Segments(InPath, <<>>)) : ~IsLocaleSegment(Segments(InPath, <<>>)[k])

\* the first segment of the path is a locale segment
StartsWithLocaleSegment ==
  /\ Len(Segments(InPath, <<>>)) >= 2
  /\ Segments(InPath, <<>>)[1] = <<>>
  /\ IsLocaleSegment(Segments(InPath, <<>>)[2])

\* C20: has_locale_prefix returns False for every URL whose path lacks a
\* locale segment, and True for every URL whose path starts with a two-letter
\* locale segment, with or without a region.
C20_LocalePrefixRecognised ==
  pc = "prefix" =>
    /\ LacksLocaleSegment => ret.value = <<"F", "a", "l", "s", "e">>
    /\ StartsWithLocaleSegment => ret.value = <<"T", "r", "u", "e">>

\* a pattern of the language occurs in the lower-cased path of the URL in hand
PatternOccurs(lang) ==
  \E pattern \in LanguagePatterns(lang) : Contains(Lower(InPath), pattern)

\* C21: detect_language returns one of fr, es, de, it, ru, en: the first
\* language, in the order fr, es, de, it, ru of the table, one of whose
\* patterns occurs in the lower-cased path of the URL, and en when no pattern
\* occurs.
C21_FirstLanguageInTableOrder ==
  pc = "language" =>
    /\ ret.value \in {<<"f", "r">>, <<"e", "s">>, <<"d", "e">>, <<"i", "t">>, <<"r", "u">>, <<"e", "n">>}
    /\ LanguageOrder = <<<<"f", "r">>, <<"e", "s">>, <<"d", "e">>, <<"i", "t">>, <<"r", "u">>>>
    /\ \A k \in 1..Len(LanguageOrder) :
         ret.value = LanguageOrder[k] <=>
           /\ PatternOccurs(LanguageOrder[k])
           /\ \A j \in 1..(k - 1) : ~PatternOccurs(LanguageOrder[j])
    /\ ret.value = <<"e", "n">> <=> \A k \in 1..Len(LanguageOrder) : ~PatternOccurs(LanguageOrder[k])

\* the German pattern comes first in the path, the French one in the table
C21_Witness ==
  /\ pc = "language"
  /\ page = Site \o <<"/", "d", "e", "/", "f", "r", "/", "x">>
  /\ ret.value = <<"f", "r">>

\* the host of the link does not end in the site's domain
ForeignHost(url) == ~EndsWith(Lower(urlparse(url).netloc), <<"n", "a", "k", "i", "v", "o", ".", "c", "o", "m">>)

\* C22: (updated, bulk, multi) the domain rule is a suffix rule: a link that
\* loads with 200 and whose host does not end in nakivo.com is not put
\* through the localization rules; it gets the cross-domain warning after the
\* GET of the link itself.
C22_DomainRuleIsSuffix ==
  ( /\ Classifying
    /\ variant \in ClassVariants
    /\ Len(net) >= 1
    /\ Ok200(net[1])
    /\ ForeignHost(CurLink) )
  => /\ cur.kind = "return"
     /\ cur.status = WARNING
     /\ Len(reqs) = 1

\* during the classification in hand every URL was answered the same way each
\* time it was requested
AnswersByUrl == \A i, j \in 1..Len(reqs) : reqs[i].url = reqs[j].url => net[i] = net[j]

\* what program v comes to for the link in hand when every request it makes
\* is answered as the same URL was answered in the classification in hand;
\* "unanswered" when it requests a URL that was not requested there
RECURSIVE ClassifyAgain(_, _)
ClassifyAgain(v, answers) ==
  LET c == Classify(v, CurLink, page, locale, answers)
  IN  IF c.kind # "pending" THEN c
      ELSE IF \E i \in 1..Len(reqs) : reqs[i].url = c.url
           THEN ClassifyAgain(v, Append(answers,
                                        net[CHOOSE i \in 1..Len(reqs) : reqs[i].url = c.url]))
           ELSE [c EXCEPT !.kind = "unanswered"]

\* C23: for every link of the site, page locale and answers of the network,
\* the original program's check_link_localization returns the status that
\* the updated program's check_link_localization returns.
C23_OriginalSharesClassification ==
  ( /\ Classifying
    /\ variant = "updated"
    /\ cur.kind = "return"
    /\ ~OffSite(CurLink)
    /\ AnswersByUrl
    /\ ClassifyAgain("original", <<>>).kind # "unanswered" )
  => /\ ClassifyAgain("original", <<>>).kind = "return"
     /\ ClassifyAgain("original", <<>>).status = cur.status

\* what program v has come to for the link in hand after the answers given
\* so far
After(v) == Classify(v, CurLink, page, locale, net)

C25_StatisticsPartitionResults ==
  variant \in ClassVariants =>
    \A k \in 1..Len(pages) :
      pages[k].stats.present =>
        LET rs == pages[k].links
            stats == pages[k].stats
            Count(S) == Cardinality({i \in 1..Len(rs) : rs[i].status \in S})
        IN  /\ \A i \in 1..Len(rs) :
                 rs[i].status \in {SUCCESS, ERROR, WARNING, DEFECT, LOCALIZATION_DEFECT}
            /\ stats.total_links = Len(rs)
            /\ stats.working_links = Count({SUCCESS})
            /\ stats.broken_links = Count({ERROR, DEFECT})
            /\ stats.localization_defects = Count({LOCALIZATION_DEFECT})
            /\ stats.warning_links = Count({WARNING})
            /\ stats.total_links = stats.working_links + stats.broken_links
                                     + stats.localization_defects + stats.warning_links

\* a page with a localization defect and a result of another status
C25_Witness ==
  /\ variant \in ClassVariants
  /\ Len(pages) >= 1
  /\ pages[1].stats.present
  /\ pages[1].stats.total_links = 2
  /\ pages[1].stats.localization_defects = 1
  /\ pages[1].stats.broken_links + pages[1].stats.warning_links = 1

\* C26: (bulk) process_bulk_urls gives one result per input URL, in the order
\* of the input, with status success, error or warning; a URL that fails does
\* not end the processing, so that a finished request has a result for every
\* URL; statistics are there and links are not empty exactly for status
\* success; the three counts of URLs add up to total_urls and total_links is
\* the sum of the total_links of the pages.
C26_OneResultPerUrl ==
  variant = "bulk" =>
    LET Urls(status) == {k \in 1..Len(pages) : pages[k].status = status}
        SumLinks[k \in 0..Len(pages)] ==
          IF k = 0 THEN 0
          ELSE SumLinks[k - 1]
                 + IF pages[k].stats.present THEN pages[k].stats.total_links ELSE 0
    IN  /\ Len(pages) <= Len(form.urls)
        /\ \A k \in 1..Len(pages) :
             /\ pages[k].url = form.urls[k]
             /\ pages[k].status \in {"success", "error", "warning"}
             /\ pages[k].stats.present <=> pages[k].status = "success"
             /\ pages[k].links # <<>> <=> pages[k].status = "success"
        /\ pc = "done" => Len(pages) = Len(form.urls)
        /\ pc \in {"probe", "extract", "fallback", "check", "stats"} =>
             /\ Len(pages) = work - 1
             /\ page = form.urls[work]
        /\ Len(pages) = Cardinality(Urls("success")) + Cardinality(Urls("error"))
                          + Cardinality(Urls("warning"))
        /\ OverallTotals(pages).total_links = SumLinks[Len(pages)]

\* the first URL of a request fails after validation, the second succeeds
C26_Witness ==
  /\ variant = "bulk"
  /\ pc = "done"
  /\ Len(pages) = 2
  /\ is_valid_url(pages[1].url) /\ has_locale_prefix(pages[1].url)
  /\ pages[1].status \in {"error", "warning"}
  /\ pages[2].status = "success"

\* C27: (multi) the handler gives one result per selected locale, in the
\* order of the selection; a locale whose page is inaccessible, has no links
\* or raises gives a result with an error, no links and no statistics; the
\* locales after it are processed all the same, so that a request that ends
\* with statistics has a result for every locale; and such a result adds
\* nothing to the overall totals.
C27_OneResultPerLocale ==
  variant = "multi" =>
    LET Succeeded == {k \in 1..Len(pages) : pages[k].status # "error"}
        Sum[k \in 0..Len(pages)] ==
          IF k = 0 THEN [total_links |-> 0, total_working_links |-> 0]
          ELSE IF k \in Succeeded
               THEN [total_links |-> Sum[k - 1].total_links + pages[k].stats.total_links,
                     total_working_links |->
                       Sum[k - 1].total_working_links + pages[k].stats.working_links]
               ELSE Sum[k - 1]
    IN  /\ Len(pages) <= Len(form.localizations)
        /\ \A k \in 1..Len(pages) :
             /\ pages[k].locale = form.localizations[k]
             /\ pages[k].url = create_localized_url(form.urls[1], form.localizations[k])
             /\ pages[k].status \in {"success", "error"}
             /\ pages[k].status = "error" =>
                  /\ pages[k].message # ""
                  /\ pages[k].links = <<>>
                  /\ ~pages[k].stats.present
             /\ pages[k].status = "success" =>
                  /\ pages[k].message = ""
                  /\ pages[k].links # <<>>
                  /\ pages[k].stats.present
        /\ (pc \in {"access", "extract", "fallback", "check", "stats"} \/ (pc = "probe" /\ work > 0)) =>
             /\ Len(pages) = work - 1
             /\ locale = form.localizations[work]
        /\ (pc = "done" /\ response.kind = "rendered" /\ response.stats = "stats") =>
             Len(pages) = Len(form.localizations)
        /\ OverallTotals(pages) = Sum[Len(pages)]

\* the first selected locale fails, the second is analysed
C27_Witness ==
  /\ variant = "multi"
  /\ pc = "done"
  /\ response.stats = "stats"
  /\ Len(pages) = 2
  /\ pages[1].status = "error"
  /\ pages[2].status = "success"

\* check_link_localization takes the URL for a link that already carries the
\* locale in hand: a file link named -<locale>.pdf or _<locale>.pdf, or a path
\* under /<locale>
RecognisedLocalized(url) ==
  \/ is_file_link(url) /\ LocalePdfMatch(Lower(urlparse(url).path), locale)
  \/ PathHasLocale(urlparse(url).path, locale)

\* the link in hand goes to _check_localized_link once it answered 200
TakesLocalizedBranch == RecognisedLocalized(CurLink)

\* C28: (updated, bulk, multi) when every URL is answered the same way each
\* time it is requested during a classification, localization_defect is never
\* returned through the branch of the already localized links: a link of the
\* site that takes that branch is a success or an error.
C28_NoDefectForLocalizedLink ==
  (ClassReturned /\ AnswersByUrl) =>
    /\ cur.status = LOCALIZATION_DEFECT => ~TakesLocalizedBranch
    /\ (~OffSite(CurLink) /\ TakesLocalizedBranch) => cur.status \in {SUCCESS, ERROR}

\* the localized link answers 200 both times it is requested
C28_Witness ==
  /\ ClassReturned
  /\ AnswersByUrl
  /\ TakesLocalizedBranch
  /\ Len(reqs) = 2
  /\ reqs[1].url = CurLink /\ reqs[2].url = CurLink
  /\ Ok200(net[1])
  /\ cur.status = SUCCESS

\* C29: for every link that check_link_localization does not take for
\* localized and every locale of the table, the URL built by
\* _get_expected_localized_url is not None, is not the link, and is itself
\* taken for localized for that locale, so that _check_non_localized_link
\* always has an expected URL to request.
C29_ExpectedUrlIsRecognised ==
  (pc = "expected" /\ ~RecognisedLocalized(page)) =>
    /\ ret.value # <<>>
    /\ ret.value # page
    /\ RecognisedLocalized(ret.value)
    /\ CheckExpected(page, ret.value, <<>>).kind = "pending"

\* the expected URL of a link without a path is the locale segment alone
C29_Witness ==
  /\ pc = "expected"
  /\ page = <<"H", "T", "T", "P", ":", "/", "/", "N", "a", "k", "i", "v", "o", ".", "c", "o", "m">>
  /\ locale = <<"i", "t">>
  /\ ~RecognisedLocalized(page)
  /\ ret.value = <<"h", "t", "t", "p", ":", "/", "/", "N", "a", "k", "i", "v", "o", ".", "c", "o", "m", "/", "i", "t">>

\* C30: for an input page whose URL passes has_locale_prefix, the locale that
\* detect_language returns is the language code of the leading segment of
\* the path, not the default en, and a link under the prefix of the page is
\* taken for already localized by check_link_localization.
C30_LocaleFunctionsConsistent ==
  (pc = "language" /\ has_locale_prefix(page)) =>
    /\ ret.value # <<"e", "n">>
    /\ ret.value = SubSeq(Segments(InPath, <<>>)[2], 1, 2)
    /\ PathHasLocale(InPath \o <<"x">>, ret.value)

====
